---------------------------- MODULE Spec2Model ----------------------------
(***************************************************************************)
(* A model of the verification core of frauvate/fake-news-detection:       *)
(*   backend/app/services/verification_service.py      (Decision Engine)   *)
(*   backend/app/services/source_trust_service.py      (Source-Trust)      *)
(*   backend/app/services/news_verification_workflow.py (Orchestrator)     *)
(*                                                                         *)
(* Numbers.  The code computes in binary floating point.  The model uses   *)
(* exact arithmetic:                                                       *)
(*   - similarity and credibility are integers in hundredths (0.65 = 65);  *)
(*   - a score is an integer in ten-thousandths (0.81 = 8100), which is    *)
(*     what round(x, 4) leaves;                                            *)
(*   - the factors are fractions <<numerator, denominator>> in lowest      *)
(*     terms, denominator positive, so equal values are equal fractions;   *)
(*   - a time is an integer count of ticks, HourTicks ticks to the hour.   *)
(* round(x, 4) is modelled as round-half-even of the exact value.          *)
(***************************************************************************)
EXTENDS Integers, Sequences, FiniteSets, TLC

VARIABLES
    engine,      \* VerificationService: its construction-time configuration
    articles,    \* the candidate list a caller hands to verify
    now,         \* the wall clock read by datetime.now(timezone.utc)
    result,      \* outcome of the latest verify call on `articles`
    prev,        \* outcome of the verify call before it
    called_at,   \* the clock values the verify calls on `articles` have read
    workflow,    \* NewsVerificationWorkflow: its construction-time configuration
    trust,       \* SourceTrustService: manual overrides and bias adjustments
    pc,          \* where the verify_text call stands
    call,        \* the arguments of the verify_text call
    clean_text,  \* verify_text local: the normalized text
    search_log,  \* the search invocations of the call, in order
    documents,   \* verify_text local: the records the search returned
    fallback_used, \* verify_text local: the flag the search step returned
    wf_articles, \* _transform_documents local: the candidates built so far
    lookup,      \* _transform_documents local: (source_id, url) -> record
    verification, \* verify_text local: what the engine returned
    wf_out,      \* what verify_text returned or raised to its caller
    trust_log,   \* how the trust engine was built, and for each source the
                 \* score last registered for it since, as the caller gave it
    trust_call,  \* the latest call on the trust engine, with its arguments
    trust_out,   \* what that call returned or raised
    threads      \* the verify calls running on the shared engine, each
                 \* with its position and its local variables

engineVars == <<engine, articles, now, result, prev, called_at>>

workflowVars == <<workflow, trust, pc, call, clean_text, search_log, documents,
                  fallback_used, wf_articles, lookup, verification, wf_out>>

\* What a verify_text call holds besides the trust engine.
callVars == <<workflow, pc, call, clean_text, search_log, documents,
              fallback_used, wf_articles, lookup, verification, wf_out>>

trustVars == <<trust_log, trust_call, trust_out>>

vars == <<engineVars, workflowVars, trustVars, threads>>

-----------------------------------------------------------------------------
(* Bounds of the model. *)

MaxArticles == 3      \* longest candidate list of Spec
MaxTicks == 1         \* how far the clock advances in Spec
MaxThreads == 2       \* concurrent calls of verify in SpecThreads
MaxDated == 4         \* candidates per list in SpecRecency
MaxPlaces == 6        \* candidates per list in SpecGeography
MaxRecords == 3       \* records a search returns in SpecNormalizer

-----------------------------------------------------------------------------
(* Program constants, core/constants.py.  Scores in ten-thousandths,       *)
(* similarities in hundredths.                                             *)

SIMILARITY_THRESHOLD == 65
DIVERSITY_THRESHOLD == 10
MIN_SOURCES_FOR_VERIFICATION == 3

SCORE_VERIFIED == 8000
SCORE_LIKELY_TRUE == 7000
SCORE_UNCERTAIN == 5000
SCORE_DISPUTED == 3000

MIN_SOURCES_VERIFIED == 10
MIN_SOURCES_LIKELY_TRUE == 7
MIN_SOURCES_UNCERTAIN == 5
MIN_SOURCES_DISPUTED == 3

\* One unit of similarity/credibility (1.0) in hundredths, and of a score in
\* ten-thousandths: the literals 1.0 of the code.
One == 100
ScoreOne == 10000

\* Time: ticks per hour (the truncation to the hour of line 183) and per day
\* (the division by 86400 seconds of line 173).
HourTicks == 2
DayTicks == 48

-----------------------------------------------------------------------------
(* Optional values: None is <<>>, a present value v is <<v>>.               *)

None == <<>>
Some(v) == <<v>>
IsNone(o) == o = <<>>
Get(o) == o[1]

(* Exact fractions. *)

RECURSIVE Gcd(_, _)
Gcd(a, b) == IF b = 0 THEN a ELSE Gcd(b, a % b)

Abs(a) == IF a < 0 THEN -a ELSE a

\* n/d in lowest terms, d > 0.
Rat(n, d) == LET g == Gcd(Abs(n), d) IN <<n \div g, d \div g>>
Num(r) == r[1]
Den(r) == r[2]
RatOne == Rat(1, 1)
RatZero == Rat(0, 1)
\* The product, cancelling across before multiplying.
RatMul(a, b) ==
    LET g1 == Gcd(Abs(Num(a)), Den(b))
        g2 == Gcd(Abs(Num(b)), Den(a))
    IN  Rat((Num(a) \div g1) * (Num(b) \div g2), (Den(a) \div g2) * (Den(b) \div g1))
\* r * k for a positive integer k, as a fraction.
RatScale(r, k) == RatMul(r, Rat(k, 1))
RatLe(a, b) == Num(a) * Den(b) <= Num(b) * Den(a)
RatLt(a, b) == Num(a) * Den(b) < Num(b) * Den(a)
RatEq(a, b) == Num(a) * Den(b) = Num(b) * Den(a)
\* Python's min(a, b) returns a unless b < a; max(a, b) returns a unless b > a.
RatMin(a, b) == IF RatLt(b, a) THEN b ELSE a
RatMax(a, b) == IF RatLt(a, b) THEN b ELSE a

IntMin(a, b) == IF b < a THEN b ELSE a
IntMax(a, b) == IF b > a THEN b ELSE a

\* round(x, ndigits) on the exact value n/d scaled to the last kept digit:
\* the nearest integer, a tie going to the even one.
RoundHalfEven(n, d) ==
    LET q == n \div d
        r == n % d
    IN  IF 2 * r < d THEN q
        ELSE IF 2 * r > d THEN q + 1
        ELSE IF q % 2 = 0 THEN q ELSE q + 1

RECURSIVE SumSeq(_)
SumSeq(s) == IF s = <<>> THEN 0 ELSE Head(s) + SumSeq(Tail(s))

FilterSeq(s, keep(_)) == SelectSeq(s, keep)

MapSeq(s, f(_)) == [i \in 1..Len(s) |-> f(s[i])]

-----------------------------------------------------------------------------
(* verification_service.py *)

\* def _clamp(value, minimum, maximum): max(minimum, min(maximum, value)).
\* No check of the range: with minimum > maximum it returns minimum.
_clamp(value, minimum, maximum) == IntMax(minimum, IntMin(maximum, value))

\* The same function on a fraction (the recency factor's clamp).
_clamp_rat(value, minimum, maximum) == RatMax(minimum, RatMin(maximum, value))

\* @dataclass SimilarArticle
SimilarArticle(sid, sim, cred, name, pub, country, link) ==
    [source_id |-> sid, similarity |-> sim, credibility |-> cred,
     source_name |-> name, published_at |-> pub, country_code |-> country,
     url |-> link]

normalized_similarity(item) == _clamp(item.similarity, 0, One)

normalized_credibility(item) == _clamp(item.credibility, 0, One)

\* VerificationService.__init__: the three keyword arguments.
VerificationService(similarity_threshold, min_sources, diversity_threshold) ==
    [similarity_threshold |-> similarity_threshold,
     min_sources |-> min_sources,
     diversity_threshold |-> diversity_threshold]

\* self._status_requirements, in the order __init__ lists them.
_status_requirements ==
    << <<"VERIFIED", SCORE_VERIFIED, MIN_SOURCES_VERIFIED>>,
       <<"LIKELY_TRUE", SCORE_LIKELY_TRUE, MIN_SOURCES_LIKELY_TRUE>>,
       <<"UNCERTAIN", SCORE_UNCERTAIN, MIN_SOURCES_UNCERTAIN>>,
       <<"DISPUTED", SCORE_DISPUTED, MIN_SOURCES_DISPUTED>> >>

\* Mutant: a candidate at the threshold exactly is filtered out.
_passes_filter_strict(self, item) ==
    normalized_similarity(item) > self.similarity_threshold

\* The candidate passes the similarity filter of _select_articles.
_passes_filter(self, item) ==
    normalized_similarity(item) >= self.similarity_threshold

\* Mutant: the copy keeps the raw credibility.
_normalized_copy_raw_credibility(item) ==
    SimilarArticle(item.source_id, normalized_similarity(item), item.credibility,
                   item.source_name, item.published_at, item.country_code, item.url)

\* The normalized copy _select_articles builds of a candidate it keeps.
_normalized_copy(item) ==
    SimilarArticle(item.source_id, normalized_similarity(item),
                   normalized_credibility(item), item.source_name,
                   item.published_at, item.country_code, item.url)

_select_articles(self, arts) ==
    LET keep(item) == _passes_filter(self, item)
    IN  MapSeq(FilterSeq(arts, keep), _normalized_copy)

\* Mutant: the sum is divided by the number of sources, not of articles.
_calculate_weighted_average_per_source(arts) ==
    IF arts = <<>> THEN RatZero
    ELSE LET product(item) == item.credibility * item.similarity
             sources == {arts[i].source_id : i \in 1..Len(arts)}
         IN  Rat(SumSeq(MapSeq(arts, product)), One * One * Cardinality(sources))

_calculate_weighted_average(arts) ==
    IF arts = <<>> THEN RatZero
    ELSE LET product(item) == item.credibility * item.similarity
         IN  Rat(SumSeq(MapSeq(arts, product)), One * One * Len(arts))

\* Mutant: the ratio is returned without the cap at 1.
_calculate_diversity_factor_unsaturated(self, unique_sources) ==
    IF unique_sources <= 0 THEN RatZero
    ELSE Rat(unique_sources, self.diversity_threshold)

\* Mutant: the factor saturates at half the diversity threshold.
_calculate_diversity_factor_half_threshold(self, unique_sources) ==
    IF unique_sources <= 0 THEN RatZero
    ELSE RatMin(Rat(2 * unique_sources, self.diversity_threshold), RatOne)

_calculate_diversity_factor(self, unique_sources) ==
    IF unique_sources <= 0 THEN RatZero
    ELSE RatMin(Rat(unique_sources, self.diversity_threshold), RatOne)

\* Mutant: the boundary ages take the lower weight.
_recency_weight_exclusive(published_at, clock) ==
    LET age == clock - published_at
    IN  IF age < 7 * DayTicks THEN 10
        ELSE IF age < 30 * DayTicks THEN 8
        ELSE IF age < 90 * DayTicks THEN 5
        ELSE 2

\* The age weight of one dated candidate, in tenths.
_recency_weight(published_at, clock) ==
    LET age == clock - published_at
    IN  IF age <= 7 * DayTicks THEN 10
        ELSE IF age <= 30 * DayTicks THEN 8
        ELSE IF age <= 90 * DayTicks THEN 5
        ELSE 2

\* published_at.replace(minute=0, second=0, microsecond=0)
_hour_bucket(published_at) == published_at - (published_at % HourTicks)

\* Mutant: two candidates in one hour are enough for the boost.
_calculate_recency_factor_boost_from_two(arts, clock) ==
    LET isDated(a) == ~IsNone(a.published_at)
        dated == FilterSeq(arts, isDated)
        weight(a) == _recency_weight(Get(a.published_at), clock)
        recency_weights == MapSeq(dated, weight)
        buckets == {_hour_bucket(Get(dated[i].published_at)) : i \in 1..Len(dated)}
        count(b) == Cardinality({i \in 1..Len(dated) :
                                   _hour_bucket(Get(dated[i].published_at)) = b})
        base_factor == IF recency_weights = <<>> THEN RatOne
                       ELSE Rat(SumSeq(recency_weights), 10 * Len(recency_weights))
        same_hour_max == IF buckets = {} THEN 0
                         ELSE CHOOSE c \in {count(b) : b \in buckets} :
                                \A b \in buckets : count(b) <= c
    IN  IF same_hour_max >= 2
        THEN LET boost == RatMin(Rat(5 * Len(arts) + same_hour_max, 5 * Len(arts)),
                                 Rat(12, 10))
             IN  _clamp_rat(RatMul(base_factor, boost), RatZero, Rat(12, 10))
        ELSE _clamp_rat(base_factor, RatZero, RatOne)

\* Mutant: the mean is taken over every candidate, dated or not.
_calculate_recency_factor_undated_counted(arts, clock) ==
    LET isDated(a) == ~IsNone(a.published_at)
        dated == FilterSeq(arts, isDated)
        weight(a) == _recency_weight(Get(a.published_at), clock)
        recency_weights == MapSeq(dated, weight)
        buckets == {_hour_bucket(Get(dated[i].published_at)) : i \in 1..Len(dated)}
        count(b) == Cardinality({i \in 1..Len(dated) :
                                   _hour_bucket(Get(dated[i].published_at)) = b})
        base_factor == IF recency_weights = <<>> THEN RatOne
                       ELSE Rat(SumSeq(recency_weights), 10 * Len(arts))
        same_hour_max == IF buckets = {} THEN 0
                         ELSE CHOOSE c \in {count(b) : b \in buckets} :
                                \A b \in buckets : count(b) <= c
    IN  IF same_hour_max >= 3
        THEN LET boost == RatMin(Rat(5 * Len(arts) + same_hour_max, 5 * Len(arts)),
                                 Rat(12, 10))
             IN  _clamp_rat(RatMul(base_factor, boost), RatZero, Rat(12, 10))
        ELSE _clamp_rat(base_factor, RatZero, RatOne)

_calculate_recency_factor(arts, clock) ==
    LET isDated(a) == ~IsNone(a.published_at)
        dated == FilterSeq(arts, isDated)
        weight(a) == _recency_weight(Get(a.published_at), clock)
        recency_weights == MapSeq(dated, weight)
        buckets == {_hour_bucket(Get(dated[i].published_at)) : i \in 1..Len(dated)}
        count(b) == Cardinality({i \in 1..Len(dated) :
                                   _hour_bucket(Get(dated[i].published_at)) = b})
        base_factor == IF recency_weights = <<>> THEN RatOne
                       ELSE Rat(SumSeq(recency_weights), 10 * Len(recency_weights))
        same_hour_max == IF buckets = {} THEN 0
                         ELSE CHOOSE c \in {count(b) : b \in buckets} :
                                \A b \in buckets : count(b) <= c
    IN  IF same_hour_max >= 3
        THEN LET boost == RatMin(Rat(5 * Len(arts) + same_hour_max, 5 * Len(arts)),
                                 Rat(12, 10))
             IN  _clamp_rat(RatMul(base_factor, boost), RatZero, Rat(12, 10))
        ELSE _clamp_rat(base_factor, RatZero, RatOne)

\* Mutant: the country codes are counted as they are written.
Upper_as_written(code) == code

\* str.upper() on the country codes of the model.
Upper(code) ==
    CASE code = "tr" -> "TR"
      [] code = "us" -> "US"
      [] OTHER -> code

\* Python truthiness of an optional string: None and "" are false.
Truthy(o) == ~IsNone(o) /\ Get(o) # ""

\* Mutant: a list with a candidate of unknown country stays neutral.
_calculate_geography_factor_lenient(arts) ==
    LET countries == {Upper(Get(arts[i].country_code)) :
                        i \in {j \in 1..Len(arts) : Truthy(arts[j].country_code)}}
    IN  IF countries = {} \/ \E i \in 1..Len(arts) : ~Truthy(arts[i].country_code)
        THEN RatOne
        ELSE RatMin(Rat(Cardinality(countries), 5), RatOne)

_calculate_geography_factor(arts) ==
    LET countries == {Upper(Get(arts[i].country_code)) :
                        i \in {j \in 1..Len(arts) : Truthy(arts[j].country_code)}}
    IN  IF countries = {} THEN RatOne
        ELSE RatMin(Rat(Cardinality(countries), 5), RatOne)

_status_reason(status) ==
    CASE status = "VERIFIED" ->
           "Multiple independent, high-credibility sources confirm the story."
      [] status = "LIKELY_TRUE" ->
           "Story is supported by several reputable sources but lacks maximum coverage."
      [] status = "UNCERTAIN" ->
           "Conflicting or limited sources - more verification required."
      [] status = "DISPUTED" ->
           "Reports exist but reliability is questionable or contradictory."
      [] OTHER -> "Insufficient trustworthy sources to verify the story."

RECURSIVE _first_match(_, _, _)
_first_match(requirements, score, unique_sources) ==
    IF requirements = <<>> THEN "UNVERIFIED"
    ELSE LET req == Head(requirements)
         IN  IF score >= req[2] /\ unique_sources >= req[3] THEN req[1]
             ELSE _first_match(Tail(requirements), score, unique_sources)

\* Mutant: the status is decided by the score alone.
_determine_status_by_score(score, unique_sources) ==
    LET status == _first_match(_status_requirements, score, MIN_SOURCES_VERIFIED)
    IN  <<status, _status_reason(status)>>

_determine_status(score, unique_sources) ==
    LET status == _first_match(_status_requirements, score, unique_sources)
    IN  <<status, _status_reason(status)>>

\* Mutant: MEDIUM starts at the LIKELY_TRUE score.
_determine_confidence_likely(score) ==
    IF score >= SCORE_VERIFIED THEN "HIGH"
    ELSE IF score >= SCORE_LIKELY_TRUE THEN "MEDIUM"
    ELSE "LOW"

_determine_confidence(score) ==
    IF score >= SCORE_VERIFIED THEN "HIGH"
    ELSE IF score >= SCORE_UNCERTAIN THEN "MEDIUM"
    ELSE "LOW"

\* raw_score = weighted_average * diversity * recency * geography, as a fraction.
_raw_score(weighted_average, diversity_factor, recency_factor, geography_factor) ==
    RatMul(RatMul(RatMul(weighted_average, diversity_factor), recency_factor),
           geography_factor)

\* Mutant: the rounded score is not clamped.
_score_unclamped(raw_score) ==
    LET scaled == RatScale(raw_score, ScoreOne)
    IN  RoundHalfEven(Num(scaled), Den(scaled))

\* score = _clamp(round(raw_score, 4), 0.0, 1.0), in ten-thousandths.
_score(raw_score) ==
    LET scaled == RatScale(raw_score, ScoreOne)
    IN  _clamp(RoundHalfEven(Num(scaled), Den(scaled)), 0, ScoreOne)

NoResult == [kind |-> "none"]

\* unique_sources = {item.source_id for item in selected}
_unique_sources(selected) == {selected[i].source_id : i \in 1..Len(selected)}

\* Mutant: exactly the minimum number of sources is refused too.
_too_few_sources_inclusive(self, unique_sources) ==
    Cardinality(unique_sources) <= self.min_sources

\* len(unique_sources) < self._min_sources
_too_few_sources(self, unique_sources) ==
    Cardinality(unique_sources) < self.min_sources

\* core/exceptions.py
NoSimilarArticlesException == [kind |-> "NoSimilarArticlesException"]

InsufficientDataException(required_sources, found_sources) ==
    [kind |-> "InsufficientDataException",
     required_sources |-> required_sources, found_sources |-> found_sources]

\* VerificationService.verify: the VerificationResult, or the fault raised.
verify(self, arts, clock) ==
    LET selected == _select_articles(self, arts)
        unique_sources == _unique_sources(selected)
        weighted_average == _calculate_weighted_average(selected)
        diversity_factor ==
            _calculate_diversity_factor(self, Cardinality(unique_sources))
        recency_factor == _calculate_recency_factor(selected, clock)
        geography_factor == _calculate_geography_factor(selected)
        score == _score(_raw_score(weighted_average, diversity_factor,
                                   recency_factor, geography_factor))
        decided == _determine_status(score, Cardinality(unique_sources))
    IN  IF selected = <<>>
        THEN NoSimilarArticlesException
        ELSE IF _too_few_sources(self, unique_sources)
        THEN InsufficientDataException(self.min_sources, Cardinality(unique_sources))
        ELSE [kind |-> "VerificationResult",
              score |-> score,
              status |-> decided[1],
              confidence |-> _determine_confidence(score),
              unique_sources |-> Cardinality(unique_sources),
              diversity_factor |-> diversity_factor,
              recency_factor |-> recency_factor,
              geography_factor |-> geography_factor,
              reasoning |-> decided[2],
              supporting_articles |-> selected]

-----------------------------------------------------------------------------
(* core/constants.py: credibility floors (hundredths) and request limits.  *)

CREDIBILITY_VERY_HIGH == 90
CREDIBILITY_HIGH == 80
CREDIBILITY_MEDIUM == 65
CREDIBILITY_LOW == 40
MAX_TEXT_LENGTH == 50000
MIN_TEXT_LENGTH == 100
MAX_SIMILAR_ARTICLES == 50

\* A dict: a function on the keys it holds.
EmptyDict == [k \in {} |-> 0]
DictGet(d, key, default) == IF key \in DOMAIN d THEN d[key] ELSE default
DictSet(d, key, value) ==
    [k \in (DOMAIN d) \cup {key} |-> IF k = key THEN value ELSE d[k]]

-----------------------------------------------------------------------------
(* source_trust_service.py.  Every number of the trust engine is an exact  *)
(* fraction of one: 0.65 is Rat(65, 100).                                  *)

\* The sum and the difference, over the least common denominator.
RatAdd(a, b) ==
    LET l == (Den(a) \div Gcd(Den(a), Den(b))) * Den(b)
    IN  Rat(Num(a) * (l \div Den(a)) + Num(b) * (l \div Den(b)), l)

RatNeg(a) == <<-Num(a), Den(a)>>

RatSub(a, b) == RatAdd(a, RatNeg(b))

\* A number of hundredths as a fraction, and back.
Pct(hundredths) == Rat(hundredths, One)

Hundredths(r) == (Num(r) * One) \div Den(r)

VerificationException == [kind |-> "VerificationException"]

\* def _clamp(value, minimum, maximum) of source_trust_service.py: raises
\* VerificationException("Invalid clamp range") on an inverted range.
trust_clamp(value, minimum, maximum) ==
    IF RatLt(maximum, minimum) THEN VerificationException
    ELSE RatMax(minimum, RatMin(maximum, value))

SourceTrustMetrics(accuracy, editorial, transparency, correction) ==
    [accuracy_history |-> accuracy, editorial_standards |-> editorial,
     transparency_level |-> transparency, correction_speed |-> correction]

normalized(self) ==
    SourceTrustMetrics(trust_clamp(self.accuracy_history, RatZero, RatOne),
                       trust_clamp(self.editorial_standards, RatZero, RatOne),
                       trust_clamp(self.transparency_level, RatZero, RatOne),
                       trust_clamp(self.correction_speed, RatZero, RatOne))

SourceTrustScore(score, tier, method, rationale, components) ==
    [score |-> score, tier |-> tier, method |-> method,
     rationale |-> rationale, components |-> components]

_baseline_by_type ==
    [t \in {"fact_checker", "mainstream_media", "government",
            "independent_media", "blog", "social_media", "unknown"} |->
        CASE t = "fact_checker" -> Pct(CREDIBILITY_VERY_HIGH)
          [] t \in {"mainstream_media", "government"} -> Pct(CREDIBILITY_HIGH)
          [] t = "independent_media" -> Pct(CREDIBILITY_MEDIUM)
          [] OTHER -> Pct(CREDIBILITY_LOW)]

SourceTrustService(manual_overrides, bias_adjustments) ==
    [overrides |-> manual_overrides, bias_adjustments |-> bias_adjustments,
     baseline_by_type |-> _baseline_by_type]

\* Mutant: the new entry replaces the whole map.
register_manual_override_reset(self, source_id, score) ==
    [self EXCEPT !.overrides =
        DictSet(EmptyDict, source_id, trust_clamp(score, RatZero, RatOne))]

\* self._overrides[source_id] = _clamp(score, 0.0, 1.0): the engine after
\* the call.
register_manual_override(self, source_id, score) ==
    [self EXCEPT !.overrides =
        DictSet(self.overrides, source_id, trust_clamp(score, RatZero, RatOne))]

_apply_bias_adjustment(self, score, bias) ==
    trust_clamp(RatAdd(score, DictGet(self.bias_adjustments, bias, RatZero)),
                RatZero, RatOne)

\* Mutant: a score of exactly CREDIBILITY_LOW is classified low.
_classify_low_inclusive(score) ==
    IF RatLe(Pct(CREDIBILITY_VERY_HIGH), score) THEN "very_high"
    ELSE IF RatLe(Pct(CREDIBILITY_HIGH), score) THEN "high"
    ELSE IF RatLe(Pct(CREDIBILITY_MEDIUM), score) THEN "medium"
    ELSE IF RatLe(Pct(CREDIBILITY_LOW), score) THEN "low"
    ELSE "very_low"

_classify(score) ==
    IF RatLe(Pct(CREDIBILITY_VERY_HIGH), score) THEN "very_high"
    ELSE IF RatLe(Pct(CREDIBILITY_HIGH), score) THEN "high"
    ELSE IF RatLe(Pct(CREDIBILITY_MEDIUM), score) THEN "medium"
    ELSE IF RatLt(Pct(CREDIBILITY_LOW), score) THEN "low"
    ELSE "very_low"

\* Mutant: an override of 0.0 counts as no override (`if not base_score`).
calculate_manual_score_falsy_override(self, source_id, source_type, bias) ==
    LET held == DictGet(self.overrides, source_id, RatZero)
        base_score ==
            IF held # RatZero THEN held
            ELSE DictGet(self.baseline_by_type, source_type, Pct(CREDIBILITY_LOW))
        adjusted == _apply_bias_adjustment(self, base_score, bias)
    IN  SourceTrustScore(adjusted, _classify(adjusted), "manual",
            "Manual baseline derived from source type and optional editorial overrides.",
            [base_score |-> base_score, bias_adjustment |-> RatSub(adjusted, base_score)])

calculate_manual_score(self, source_id, source_type, bias) ==
    LET base_score ==
            IF source_id \in DOMAIN self.overrides THEN self.overrides[source_id]
            ELSE DictGet(self.baseline_by_type, source_type, Pct(CREDIBILITY_LOW))
        adjusted == _apply_bias_adjustment(self, base_score, bias)
    IN  SourceTrustScore(adjusted, _classify(adjusted), "manual",
            "Manual baseline derived from source type and optional editorial overrides.",
            [base_score |-> base_score, bias_adjustment |-> RatSub(adjusted, base_score)])

\* The weighted sum of the four clamped metrics.
_weighted_metrics(metrics) ==
    RatAdd(RatAdd(RatMul(metrics.accuracy_history, Pct(40)),
                  RatMul(metrics.editorial_standards, Pct(30))),
           RatAdd(RatMul(metrics.transparency_level, Pct(20)),
                  RatMul(metrics.correction_speed, Pct(10))))

\* Mutant: the baseline is added to the weighted sum, not averaged with it.
calculate_dynamic_score_added(self, metrics, source_type, bias, blend_with_manual) ==
    LET clamped == normalized(metrics)
        weighted == _weighted_metrics(clamped)
        baseline == DictGet(self.baseline_by_type, source_type, Pct(CREDIBILITY_LOW))
        dynamic_score == IF blend_with_manual THEN RatAdd(weighted, baseline)
                         ELSE weighted
        adjusted == _apply_bias_adjustment(self, dynamic_score, bias)
    IN  SourceTrustScore(adjusted, _classify(adjusted), "dynamic",
            IF blend_with_manual
            THEN "Weighted metrics (accuracy, editorial standards, transparency, correction speed) blended with type baseline"
            ELSE "Weighted behavioral metrics",
            [accuracy_history |-> clamped.accuracy_history,
             editorial_standards |-> clamped.editorial_standards,
             transparency_level |-> clamped.transparency_level,
             correction_speed |-> clamped.correction_speed,
             baseline |-> IF blend_with_manual THEN baseline ELSE RatZero,
             bias_adjustment |-> RatSub(adjusted, dynamic_score)])

calculate_dynamic_score(self, metrics, source_type, bias, blend_with_manual) ==
    LET clamped == normalized(metrics)
        weighted == _weighted_metrics(clamped)
        baseline == DictGet(self.baseline_by_type, source_type, Pct(CREDIBILITY_LOW))
        dynamic_score == IF blend_with_manual
                         THEN RatMul(RatAdd(weighted, baseline), Rat(1, 2))
                         ELSE weighted
        adjusted == _apply_bias_adjustment(self, dynamic_score, bias)
    IN  SourceTrustScore(adjusted, _classify(adjusted), "dynamic",
            IF blend_with_manual
            THEN "Weighted metrics (accuracy, editorial standards, transparency, correction speed) blended with type baseline"
            ELSE "Weighted behavioral metrics",
            [accuracy_history |-> clamped.accuracy_history,
             editorial_standards |-> clamped.editorial_standards,
             transparency_level |-> clamped.transparency_level,
             correction_speed |-> clamped.correction_speed,
             baseline |-> IF blend_with_manual THEN baseline ELSE RatZero,
             bias_adjustment |-> RatSub(adjusted, dynamic_score)])

\* manual_weight: float = 0.5, the argument being optional.
_manual_weight(manual_weight) ==
    IF IsNone(manual_weight) THEN Rat(1, 2) ELSE Get(manual_weight)

\* f"{x:.2f}": x in hundredths, rounded.
Format2f(x) == RoundHalfEven(Num(x) * One, Den(x))

\* Mutant: the weight is used as given, not clamped.
combine_scores_raw_weight(self, manual_score, dynamic_score, manual_weight) ==
    LET weight == _manual_weight(manual_weight)
        combined_value == RatAdd(RatMul(manual_score.score, weight),
                                 RatMul(dynamic_score.score, RatSub(RatOne, weight)))
    IN  SourceTrustScore(trust_clamp(combined_value, RatZero, RatOne),
            _classify(combined_value), "hybrid",
            [text |-> "Blended manual and dynamic trust scores with weights",
             manual |-> Format2f(weight), dynamic |-> Format2f(RatSub(RatOne, weight))],
            [manual_score |-> manual_score.score,
             dynamic_score |-> dynamic_score.score,
             manual_weight |-> weight])

combine_scores(self, manual_score, dynamic_score, manual_weight) ==
    LET weight == trust_clamp(_manual_weight(manual_weight), RatZero, RatOne)
        combined_value == RatAdd(RatMul(manual_score.score, weight),
                                 RatMul(dynamic_score.score, RatSub(RatOne, weight)))
    IN  SourceTrustScore(trust_clamp(combined_value, RatZero, RatOne),
            _classify(combined_value), "hybrid",
            [text |-> "Blended manual and dynamic trust scores with weights",
             manual |-> Format2f(weight), dynamic |-> Format2f(RatSub(RatOne, weight))],
            [manual_score |-> manual_score.score,
             dynamic_score |-> dynamic_score.score,
             manual_weight |-> weight])

-----------------------------------------------------------------------------
(* utils/text_processing.py: what verify_text needs of the normalization:  *)
(* the guards of clean_for_embedding and the text it returns.  A text is   *)
(* its length in characters and what the cleaning steps leave of it.       *)

Text(chars, cleaned_chars, cleaned_words) ==
    [chars |-> chars, cleaned |-> [chars |-> cleaned_chars, words |-> cleaned_words]]

ValidationException(error_code) ==
    [kind |-> "ValidationException", error_code |-> error_code]

TextTooLongException(length, max_length) ==
    [kind |-> "TextTooLongException", length |-> length, max_length |-> max_length]

TextTooShortException(length, min_length) ==
    [kind |-> "TextTooShortException", length |-> length, min_length |-> min_length]

IsValidationFault(x) ==
    x.kind \in {"ValidationException", "TextTooLongException", "TextTooShortException"}

\* clean_for_embedding(text, validate_length=True): the cleaned text, or
\* the validation fault raised.
clean_for_embedding(text) ==
    IF text.chars = 0 THEN ValidationException("VAL_004")
    ELSE IF text.chars > MAX_TEXT_LENGTH
         THEN TextTooLongException(text.chars, MAX_TEXT_LENGTH)
    ELSE IF text.cleaned.chars < MIN_TEXT_LENGTH
         THEN TextTooShortException(text.cleaned.chars, MIN_TEXT_LENGTH)
    ELSE [kind |-> "str", chars |-> text.cleaned.chars, words |-> text.cleaned.words]

prepare_for_similarity_search(text) == clean_for_embedding(text)

-----------------------------------------------------------------------------
(* core/mongo.py: the two searches.  A stored article holds _id, baslik,   *)
(* ozet, url, kaynak, tarih; searchScore is the relevance Atlas gives it   *)
(* for the query.  Which articles match is up to the query and the data:   *)
(* each search returns one of a set of possible lists, or raises.          *)

\* The fields verify_text reads of a record; None where the record has no
\* such key.
Document(oid, kaynak, url, baslik, ozet, tarih, score) ==
    [kaynak_id |-> None, kaynak |-> kaynak, source_id |-> None, _id |-> oid,
     url |-> url, baslik |-> baslik, ozet |-> ozet, score |-> score,
     credibility |-> None, trust_score |-> None, guvenilirlik |-> None,
     tarih |-> tarih, ulke |-> None]

\* A number as a field holds it: what float() makes of it, if anything.
Number(value) == [parses |-> TRUE, value |-> value]
NotANumber == [parses |-> FALSE, value |-> 0]

Injective(s) == \A i, j \in 1..Len(s) : s[i] = s[j] => i = j

\* Every list of distinct members of `stored`, of at most `limit` members.
ListsOf(stored, limit) ==
    LET most == IntMin(limit, Cardinality(stored))
    IN  {s \in UNION {[1..n -> stored] : n \in 0..most} : Injective(s)}

PyMongoError(raised_by) == [kind |-> "PyMongoError", raised_by |-> raised_by]

\* search_news_atlas(query, limit): $search, $project (score is the meta
\* searchScore), $sort by score descending, $limit.  The server refuses a
\* $limit that is not positive: no list is returned, the call raises.
search_news_atlas(stored, query, limit) ==
    IF limit <= 0 THEN {} ELSE
    {MapSeq(s, LAMBDA a : Document(a._id, a.kaynak, a.url, a.baslik, a.ozet,
                                   a.tarih, Some(Number(a.searchScore)))) :
       s \in {l \in ListsOf(stored, limit) :
                \A i \in 1..(Len(l) - 1) : l[i].searchScore >= l[i + 1].searchScore}}

\* Mutant: a record the regex matches is given the score 1.0.
search_news_regex_scored(stored, query, limit) ==
    {MapSeq(s, LAMBDA a : Document(a._id, a.kaynak, a.url, a.baslik, a.ozet,
                                   a.tarih, Some(Number(100)))) :
       s \in ListsOf(stored, IF limit = 0 THEN Cardinality(stored) ELSE limit)}

\* search_news_regex(query, limit): find(...).limit(limit); doc["score"] = None.
\* A cursor limit of 0 is no limit.
search_news_regex(stored, query, limit) ==
    {MapSeq(s, LAMBDA a : Document(a._id, a.kaynak, a.url, a.baslik, a.ozet,
                                   a.tarih, None)) :
       s \in ListsOf(stored, IF limit = 0 THEN Cardinality(stored) ELSE limit)}

-----------------------------------------------------------------------------
(* news_verification_workflow.py *)

\* NewsVerificationWorkflow.__init__; the engine and the trust service it
\* is given are the variables engine and trust.
NewsVerificationWorkflow(source_type_overrides, source_bias_overrides, default_limit) ==
    [source_type_overrides |-> source_type_overrides,
     source_bias_overrides |-> source_bias_overrides,
     default_limit |-> IntMin(default_limit, MAX_SIMILAR_ARTICLES)]

_determine_limit(self, limit) ==
    IF IsNone(limit) THEN self.default_limit
    ELSE IF Get(limit) <= 0 THEN 1
    ELSE IntMin(Get(limit), MAX_SIMILAR_ARTICLES)

\* The first of the values that is neither None nor empty, if any.
RECURSIVE FirstTruthy(_)
FirstTruthy(values) ==
    IF values = <<>> THEN None
    ELSE IF Truthy(Head(values)) THEN Head(values)
    ELSE FirstTruthy(Tail(values))

\* Mutant: the placeholder is the same for every record.
_extract_source_id_shared_placeholder(document, address) ==
    LET value == FirstTruthy(<<document.kaynak_id, document.kaynak,
                               document.source_id, document._id, document.url>>)
        fallback == FirstTruthy(<<document.baslik, document.ozet>>)
    IN  IF ~IsNone(value) THEN Get(value)
        ELSE IF ~IsNone(fallback) THEN Get(fallback)
        ELSE "anonymous"

\* _extract_source_id; `address` is id(document).
_extract_source_id(document, address) ==
    LET value == FirstTruthy(<<document.kaynak_id, document.kaynak,
                               document.source_id, document._id, document.url>>)
        fallback == FirstTruthy(<<document.baslik, document.ozet>>)
    IN  IF ~IsNone(value) THEN Get(value)
        ELSE IF ~IsNone(fallback) THEN Get(fallback)
        ELSE "anonymous-" \o ToString(address)

_extract_similarity(document) ==
    LET raw == document.score
        value == IF IsNone(raw) THEN 0
                 ELSE IF Get(raw).parses THEN Get(raw).value
                 ELSE 0
    IN  IF value > One THEN One ELSE IntMax(0, value)

\* The first explicit value float() accepts, if any.
RECURSIVE FirstNumber(_)
FirstNumber(raws) ==
    IF raws = <<>> THEN None
    ELSE IF ~IsNone(Head(raws)) /\ Get(Head(raws)).parses THEN Head(raws)
    ELSE FirstNumber(Tail(raws))

\* Mutant: an explicit field that does not parse ends the search with 0.
_extract_credibility_unparsable_is_zero(self, trust_service, document, source_id) ==
    LET raws == <<document.credibility, document.trust_score, document.guvenilirlik>>
        present == SelectSeq(raws, LAMBDA raw : ~IsNone(raw))
        source_type == DictGet(self.source_type_overrides, source_id, "unknown")
        bias == DictGet(self.source_bias_overrides, source_id, "unknown")
    IN  IF present # <<>>
        THEN IF Get(Head(present)).parses
             THEN IntMax(0, IntMin(Get(Head(present)).value, One))
             ELSE 0
        ELSE Hundredths(calculate_manual_score(trust_service, source_id, source_type, bias).score)

_extract_credibility(self, trust_service, document, source_id) ==
    LET raw == FirstNumber(<<document.credibility, document.trust_score,
                             document.guvenilirlik>>)
        source_type == DictGet(self.source_type_overrides, source_id, "unknown")
        bias == DictGet(self.source_bias_overrides, source_id, "unknown")
    IN  IF ~IsNone(raw) THEN IntMax(0, IntMin(Get(raw).value, One))
        ELSE Hundredths(calculate_manual_score(trust_service, source_id, source_type, bias).score)

\* A stored date is a datetime, or a string one of the three formats may
\* parse.
DateTime(at) == [type |-> "datetime", parses |-> TRUE, at |-> at]
DateString(parses, at) == [type |-> "str", parses |-> parses, at |-> at]

_parse_datetime(value) ==
    IF IsNone(value) THEN None
    ELSE IF Get(value).type = "datetime" THEN Some(Get(value).at)
    ELSE IF Get(value).type = "str" /\ Get(value).parses THEN Some(Get(value).at)
    ELSE None

_coerce_str(value) == value

\* text[:2].upper()
Prefix2Upper(text) ==
    CASE text \in {"tr", "TR", "Turkey", "turkiye"} -> IF text = "Turkey" THEN "TU" ELSE "TR"
      [] text \in {"us", "US", "usa"} -> "US"
      [] OTHER -> text

_coerce_country(value) ==
    LET text == _coerce_str(value)
    IN  IF Truthy(text) THEN Some(Prefix2Upper(Get(text))) ELSE None

_build_similar_article(self, trust_service, document, address) ==
    LET source_id == _extract_source_id(document, address)
    IN  SimilarArticle(source_id,
                       _extract_similarity(document),
                       _extract_credibility(self, trust_service, document, source_id),
                       _coerce_str(document.kaynak),
                       _parse_datetime(document.tarih),
                       _coerce_country(document.ulke),
                       _coerce_str(document.url))

_article_key(article) == <<article.source_id, article.url>>

\* value.isoformat(), with "Z" appended to a naive value: the text of the
\* instant.
_format_datetime(value) ==
    IF IsNone(value) THEN None ELSE Some([isoformat |-> Get(value)])

\* a or b
Or(a, b) == IF Truthy(a) THEN a ELSE b

NoMetadata ==
    [baslik |-> None, ozet |-> None, url |-> None, kaynak |-> None, ulke |-> None]

_merge_entry(article, table) ==
    LET metadata == DictGet(table, _article_key(article), NoMetadata)
    IN  [baslik |-> metadata.baslik,
         ozet |-> metadata.ozet,
         url |-> Or(article.url, metadata.url),
         kaynak |-> Or(article.source_name, metadata.kaynak),
         kaynak_id |-> article.source_id,
         tarih |-> _format_datetime(article.published_at),
         ulke |-> Or(article.country_code, metadata.ulke),
         benzerlik |-> article.similarity,
         guvenilirlik |-> article.credibility]

_merge_metadata(selected, table) ==
    MapSeq(selected, LAMBDA article : _merge_entry(article, table))

VerificationWorkflowResult(text, outcome, enriched, flag) ==
    [kind |-> "VerificationWorkflowResult", clean_text |-> text,
     verification |-> outcome, articles |-> enriched, fallback_used |-> flag]

\* The workflow the router builds, NewsVerificationWorkflow(), and the
\* trust service it then makes for itself.
DefaultWorkflow == NewsVerificationWorkflow(EmptyDict, EmptyDict, MAX_SIMILAR_ARTICLES)

DefaultTrust == SourceTrustService(EmptyDict, EmptyDict)

NoArguments == [text |-> None, limit |-> None]

\* The outcomes a search invocation is logged with.
SearchInvocation(fn, query, limit, raised, returned) ==
    [fn |-> fn, query |-> query, limit |-> limit, raised |-> raised,
     returned |-> returned]

\* The trust engine as built, no call made on it yet.
Construction(self) ==
    [op |-> "__init__", manual_overrides |-> self.overrides,
     bias_adjustments |-> self.bias_adjustments]

NoTrustCall ==
    /\ trust_log = [built |-> Construction(trust), registered |-> EmptyDict]
    /\ trust_call = [op |-> "none"]
    /\ trust_out = NoResult

\* No verify_text call has been made.
NoCall ==
    /\ workflow = DefaultWorkflow
    /\ trust = DefaultTrust
    /\ pc = "idle"
    /\ call = NoArguments
    /\ clean_text = None
    /\ search_log = <<>>
    /\ documents = <<>>
    /\ fallback_used = FALSE
    /\ wf_articles = <<>>
    /\ lookup = EmptyDict
    /\ verification = NoResult
    /\ wf_out = NoResult

-----------------------------------------------------------------------------
(* The Decision Engine driven by a caller: Spec.                            *)

\* The clock when the model starts: half past an hour, more than 90 days in.
Now0 == 4801

\* The engines of the model: the default construction, and one configured
\* with a higher similarity threshold and lower source thresholds.
DefaultEngine == VerificationService(SIMILARITY_THRESHOLD, MIN_SOURCES_FOR_VERIFICATION, DIVERSITY_THRESHOLD)

SmallEngine == VerificationService(90, 2, 2)

Engines == {DefaultEngine, SmallEngine}

\* What a candidate of Spec carries besides its source: raw values in and out
\* of [0,1], at and around both similarity thresholds; no date, a date in the
\* hour of Now0, dates seven days before Now0 exactly and one tick less; no
\* country, the same country in two cases, another country.
Profiles ==
    { [sim |-> 150, cred |-> 150, pub |-> Some(Now0), cc |-> None],
      [sim |-> 65, cred |-> 80, pub |-> Some(Now0 - 7 * DayTicks), cc |-> Some("tr")],
      [sim |-> 60, cred |-> 90, pub |-> None, cc |-> Some("TR")],
      [sim |-> -500, cred |-> -500, pub |-> None, cc |-> None],
      [sim |-> 90, cred |-> -500, pub |-> Some(Now0 - 7 * DayTicks + 1), cc |-> Some("US")],
      [sim |-> 90, cred |-> 90, pub |-> None, cc |-> None] }

SourcesOf(arts) == {arts[i].source_id : i \in 1..Len(arts)}

\* Source ids are only compared for equality: a candidate comes from a source
\* already in the list or from the next unused one.
NextSources(arts) == 1..(Cardinality(SourcesOf(arts)) + 1)

Init ==
    /\ engine \in Engines
    /\ articles = <<>>
    /\ now = Now0
    /\ result = NoResult
    /\ prev = NoResult
    /\ called_at = <<>>
    /\ NoCall
    /\ NoTrustCall
    /\ threads = <<>>

\* The caller appends one candidate to the list it is building.
AddArticle ==
    /\ result = NoResult
    /\ Len(articles) < MaxArticles
    /\ \E sid \in NextSources(articles), p \in Profiles :
         articles' = Append(articles,
                            SimilarArticle(sid, p.sim, p.cred, None, p.pub, p.cc, None))
    /\ UNCHANGED <<engine, now, result, prev, called_at, workflowVars, trustVars, threads>>

\* Time passes.
Tick ==
    /\ now < Now0 + MaxTicks
    /\ now' = now + 1
    /\ UNCHANGED <<engine, articles, result, prev, called_at, workflowVars, trustVars, threads>>

\* verify(articles) is called and returns or raises; the list is called on
\* at most twice.
Verify ==
    /\ prev = NoResult
    /\ result' = verify(engine, articles, now)
    /\ prev' = result
    /\ called_at' = Append(called_at, now)
    /\ UNCHANGED <<engine, articles, now, workflowVars, trustVars, threads>>

Next == AddArticle \/ Tick \/ Verify

Spec == Init /\ [][Next]_vars

-----------------------------------------------------------------------------
(* The Decision Engine on long lists: SpecLadder.  The default engine is   *)
(* handed up to MaxReports reports, enough sources for every rung of the   *)
(* status ladder.                                                          *)

MaxReports == 10

\* The kinds of report, in the order the caller appends them.  A fresh kind
\* comes from a source not yet in the list, the last kind from the first
\* source again.
ReportKinds ==
    << [sim |-> 90, cred |-> 90, pub |-> None, fresh |-> TRUE],
       [sim |-> 90, cred |-> 90, pub |-> Some(Now0), fresh |-> TRUE],
       [sim |-> 150, cred |-> 150, pub |-> Some(Now0 - 1), fresh |-> TRUE],
       [sim |-> 70, cred |-> 60, pub |-> None, fresh |-> TRUE],
       [sim |-> 80, cred |-> 100, pub |-> Some(Now0 - 8 * DayTicks), fresh |-> TRUE],
       [sim |-> 95, cred |-> 85, pub |-> None, fresh |-> FALSE] >>

KindOf(a) ==
    CHOOSE k \in 1..Len(ReportKinds) :
        /\ ReportKinds[k].sim = a.similarity
        /\ ReportKinds[k].cred = a.credibility
        /\ ReportKinds[k].pub = a.published_at

InitLadder ==
    /\ engine = DefaultEngine
    /\ articles = <<>>
    /\ now = Now0
    /\ result = NoResult
    /\ prev = NoResult
    /\ called_at = <<>>
    /\ NoCall
    /\ NoTrustCall
    /\ threads = <<>>

\* The caller appends one report, kinds in non-decreasing order.
AddReport ==
    /\ result = NoResult
    /\ Len(articles) < MaxReports
    /\ \E k \in 1..Len(ReportKinds) :
         /\ articles # <<>> => KindOf(articles[Len(articles)]) <= k
         /\ LET r == ReportKinds[k]
                sid == IF r.fresh THEN Cardinality(SourcesOf(articles)) + 1
                       ELSE 1
            IN  articles' = Append(articles,
                                   SimilarArticle(sid, r.sim, r.cred, None, r.pub, None, None))
    /\ UNCHANGED <<engine, now, result, prev, called_at, workflowVars, trustVars, threads>>

NextLadder == AddReport \/ Verify

SpecLadder == InitLadder /\ [][NextLadder]_vars

-----------------------------------------------------------------------------
(* verify_text, step by step: SpecWorkflow.  One call is made on a         *)
(* workflow; the searches run against the stored articles below.           *)

\* The stored articles: two of one source under one url, a date that does
\* not parse, an empty source name, a missing url, relevances above 1 and
\* below the similarity threshold.
Collection ==
    { [_id |-> Some("a1"), kaynak |-> Some("ntv"), url |-> Some("u1"),
       baslik |-> Some("b1"), ozet |-> Some("o1"),
       tarih |-> Some(DateTime(Now0 - 1)), searchScore |-> 320],
      [_id |-> Some("a2"), kaynak |-> Some("ntv"), url |-> Some("u1"),
       baslik |-> Some("b2"), ozet |-> None,
       tarih |-> None, searchScore |-> 90],
      [_id |-> Some("a3"), kaynak |-> Some("trt"), url |-> Some("u3"),
       baslik |-> Some("b3"), ozet |-> Some("o3"),
       tarih |-> Some(DateString(FALSE, 0)), searchScore |-> 80],
      [_id |-> Some("a4"), kaynak |-> Some(""), url |-> Some("u4"),
       baslik |-> Some("b4"), ozet |-> None,
       tarih |-> Some(DateString(TRUE, Now0 - 8 * DayTicks)), searchScore |-> 70],
      [_id |-> Some("a5"), kaynak |-> Some("bbc"), url |-> None,
       baslik |-> None, ozet |-> Some("o5"),
       tarih |-> None, searchScore |-> 30] }

\* An engine that keeps every candidate and verifies on one source.
LenientEngine == VerificationService(0, 1, 2)

\* The workflows of the model: the router's, one built with overrides, a
\* default limit of two and the lenient engine, and one built with a default
\* limit of zero.
Setups ==
    { [workflow |-> DefaultWorkflow, engine |-> DefaultEngine],
      [workflow |-> NewsVerificationWorkflow("ntv" :> "mainstream_media",
                                             "trt" :> "left", 2),
       engine |-> LenientEngine],
      [workflow |-> NewsVerificationWorkflow(EmptyDict, EmptyDict, 0),
       engine |-> LenientEngine] }

\* The texts of the model: empty, too long, too short once cleaned, and two
\* that pass, one of them of the greatest length allowed.
Texts ==
    { Text(0, 0, ""), Text(50001, 50001, "cok uzun"), Text(120, 80, "kisa"),
      Text(120, 110, "deprem haberi"), Text(50000, 50000, "uzun haber") }

Limits == {None, Some(0), Some(-1), Some(2), Some(3), Some(60)}

InitWorkflow ==
    /\ \E setup \in Setups : engine = setup.engine /\ workflow = setup.workflow
    /\ articles = <<>>
    /\ now = Now0
    /\ result = NoResult
    /\ prev = NoResult
    /\ called_at = <<>>
    /\ trust = DefaultTrust
    /\ pc = "idle"
    /\ call = NoArguments
    /\ clean_text = None
    /\ search_log = <<>>
    /\ documents = <<>>
    /\ fallback_used = FALSE
    /\ wf_articles = <<>>
    /\ lookup = EmptyDict
    /\ verification = NoResult
    /\ wf_out = NoResult
    /\ NoTrustCall
    /\ threads = <<>>

\* A caller calls verify_text(text, limit=limit).
CallVerifyText ==
    /\ pc = "idle"
    /\ \E text \in Texts, limit \in Limits :
         call' = [text |-> Some(text), limit |-> limit]
    /\ pc' = "normalize"
    /\ UNCHANGED <<engineVars, trustVars, threads, workflow, trust, clean_text, search_log, documents,
                   fallback_used, wf_articles, lookup, verification, wf_out>>

\* clean_text = prepare_for_similarity_search(text)
Normalize ==
    /\ pc = "normalize"
    /\ LET cleaned == prepare_for_similarity_search(Get(call.text))
       IN  IF IsValidationFault(cleaned)
           THEN /\ wf_out' = cleaned
                /\ pc' = "raised"
                /\ UNCHANGED clean_text
           ELSE /\ clean_text' = Some(cleaned)
                /\ pc' = "search_primary"
                /\ UNCHANGED wf_out
    /\ UNCHANGED <<engineVars, trustVars, threads, workflow, trust, call, search_log, documents,
                   fallback_used, wf_articles, lookup, verification>>

\* Mutant: no try around the primary search, its error leaves verify_text.
SearchPrimary_unguarded ==
    /\ pc = "search_primary"
    /\ LET search_limit == _determine_limit(workflow, call.limit)
           query == Get(clean_text)
       IN  \/ \E found \in search_news_atlas(Collection, query, search_limit) :
                /\ search_log' = Append(search_log,
                       SearchInvocation("search_news_atlas", query, search_limit, FALSE, found))
                /\ documents' = found
                /\ fallback_used' = FALSE
                /\ pc' = "transform"
                /\ UNCHANGED wf_out
           \/ /\ search_log' = Append(search_log,
                       SearchInvocation("search_news_atlas", query, search_limit, TRUE, <<>>))
              /\ wf_out' = PyMongoError("search_news_atlas")
              /\ pc' = "raised"
              /\ UNCHANGED <<documents, fallback_used>>
    /\ UNCHANGED <<engineVars, trustVars, threads, workflow, trust, call, clean_text, wf_articles,
                   lookup, verification>>

\* _search_similar_articles, the try: search_news_atlas(clean_text,
\* limit=search_limit) returns, and (documents, False) with it, or raises
\* and the except clause is entered.
SearchPrimary ==
    /\ pc = "search_primary"
    /\ LET search_limit == _determine_limit(workflow, call.limit)
           query == Get(clean_text)
       IN  \/ \E found \in search_news_atlas(Collection, query, search_limit) :
                /\ search_log' = Append(search_log,
                       SearchInvocation("search_news_atlas", query, search_limit, FALSE, found))
                /\ documents' = found
                /\ fallback_used' = FALSE
                /\ pc' = "transform"
           \/ /\ search_log' = Append(search_log,
                       SearchInvocation("search_news_atlas", query, search_limit, TRUE, <<>>))
              /\ pc' = "search_fallback"
              /\ UNCHANGED <<documents, fallback_used>>
    /\ UNCHANGED <<engineVars, trustVars, threads, workflow, trust, call, clean_text, wf_articles,
                   lookup, verification, wf_out>>

\* Mutant: the fallback search is called without the limit, and runs with
\* the default of its own, 5.
SearchFallback_own_limit ==
    /\ pc = "search_fallback"
    /\ LET query == Get(clean_text)
       IN  \/ \E found \in search_news_regex(Collection, query, 5) :
                /\ search_log' = Append(search_log,
                       SearchInvocation("search_news_regex", query, 5, FALSE, found))
                /\ documents' = found
                /\ fallback_used' = TRUE
                /\ pc' = "transform"
                /\ UNCHANGED wf_out
           \/ /\ search_log' = Append(search_log,
                       SearchInvocation("search_news_regex", query, 5, TRUE, <<>>))
              /\ wf_out' = PyMongoError("search_news_regex")
              /\ pc' = "raised"
              /\ UNCHANGED <<documents, fallback_used>>
    /\ UNCHANGED <<engineVars, trustVars, threads, workflow, trust, call, clean_text, wf_articles,
                   lookup, verification>>

\* _search_similar_articles, the except clause: search_news_regex(
\* clean_text, limit=search_limit) returns, and (documents, True) with it,
\* or raises; nothing catches what it raises.
SearchFallback ==
    /\ pc = "search_fallback"
    /\ LET search_limit == _determine_limit(workflow, call.limit)
           query == Get(clean_text)
       IN  \/ \E found \in search_news_regex(Collection, query, search_limit) :
                /\ search_log' = Append(search_log,
                       SearchInvocation("search_news_regex", query, search_limit, FALSE, found))
                /\ documents' = found
                /\ fallback_used' = TRUE
                /\ pc' = "transform"
                /\ UNCHANGED wf_out
           \/ /\ search_log' = Append(search_log,
                       SearchInvocation("search_news_regex", query, search_limit, TRUE, <<>>))
              /\ wf_out' = PyMongoError("search_news_regex")
              /\ pc' = "raised"
              /\ UNCHANGED <<documents, fallback_used>>
    /\ UNCHANGED <<engineVars, trustVars, threads, workflow, trust, call, clean_text, wf_articles,
                   lookup, verification>>

\* Mutant: the loop reads the trust engine as it was constructed, untouched
\* by registrations made since.
TransformDocument_as_constructed ==
    /\ pc = "transform"
    /\ Len(wf_articles) < Len(documents)
    /\ LET address == Len(wf_articles) + 1
           doc == documents[address]
           article == _build_similar_article(workflow, DefaultTrust, doc, address)
       IN  /\ wf_articles' = Append(wf_articles, article)
           /\ lookup' = DictSet(lookup, _article_key(article), doc)
    /\ UNCHANGED <<engineVars, trustVars, threads, workflow, trust, pc, call, clean_text, search_log,
                   documents, fallback_used, verification, wf_out>>

\* _transform_documents, one turn of the loop.
TransformDocument ==
    /\ pc = "transform"
    /\ Len(wf_articles) < Len(documents)
    /\ LET address == Len(wf_articles) + 1
           doc == documents[address]
           article == _build_similar_article(workflow, trust, doc, address)
       IN  /\ wf_articles' = Append(wf_articles, article)
           /\ lookup' = DictSet(lookup, _article_key(article), doc)
    /\ UNCHANGED <<engineVars, trustVars, threads, workflow, trust, pc, call, clean_text, search_log,
                   documents, fallback_used, verification, wf_out>>

\* Mutant: a fault of the engine is caught and raised again as a plain
\* VerificationException.
RunVerification_wrapping ==
    /\ pc = "transform"
    /\ Len(wf_articles) = Len(documents)
    /\ LET outcome == verify(engine, wf_articles, now)
       IN  IF outcome.kind = "VerificationResult"
           THEN /\ verification' = outcome
                /\ pc' = "merge"
                /\ UNCHANGED wf_out
           ELSE /\ wf_out' = VerificationException
                /\ pc' = "raised"
                /\ UNCHANGED verification
    /\ called_at' = Append(called_at, now)
    /\ UNCHANGED <<engine, articles, now, result, prev, trustVars, threads,
                   workflow, trust, call, clean_text, search_log,
                   documents, fallback_used, wf_articles, lookup>>

\* verification = self._verification_service.verify(articles): the engine
\* is called, reads the clock, and returns or raises; nothing in verify_text
\* catches what it raises.
RunVerification ==
    /\ pc = "transform"
    /\ Len(wf_articles) = Len(documents)
    /\ LET outcome == verify(engine, wf_articles, now)
       IN  IF outcome.kind = "VerificationResult"
           THEN /\ verification' = outcome
                /\ pc' = "merge"
                /\ UNCHANGED wf_out
           ELSE /\ wf_out' = outcome
                /\ pc' = "raised"
                /\ UNCHANGED verification
    /\ called_at' = Append(called_at, now)
    /\ UNCHANGED <<engine, articles, now, result, prev, trustVars, threads,
                   workflow, trust, call, clean_text, search_log,
                   documents, fallback_used, wf_articles, lookup>>

\* enriched = self._merge_metadata(...); return VerificationWorkflowResult(...)
ReturnResult ==
    /\ pc = "merge"
    /\ wf_out' = VerificationWorkflowResult(
                    Get(clean_text), verification,
                    _merge_metadata(verification.supporting_articles, lookup),
                    fallback_used)
    /\ pc' = "returned"
    /\ UNCHANGED <<engineVars, trustVars, threads, workflow, trust, call, clean_text, search_log,
                   documents, fallback_used, wf_articles, lookup, verification>>

NextWorkflow ==
    \/ CallVerifyText
    \/ Normalize
    \/ SearchPrimary
    \/ SearchFallback
    \/ TransformDocument
    \/ RunVerification
    \/ ReturnResult

SpecWorkflow == InitWorkflow /\ [][NextWorkflow]_vars

-----------------------------------------------------------------------------
(* The normalizer on loosely typed records: SpecNormalizer.  verify_text   *)
(* is followed from its search on, the search returning any list of at     *)
(* most MaxRecords records, fields missing, empty, unparsable or out of    *)
(* range.                                                                  *)

\* The records a search may return: nothing but a summary; nothing at all;
\* an empty source name and out-of-range numbers; every kind of source id
\* with a relevance and a trust value above 1; two records of one source
\* and url; unparsable credibility fields; a headline only.
RawRecords ==
    { Document(None, None, None, None, None, None, None),
      [Document(None, None, None, None, Some("o2"), None, Some(NotANumber))
          EXCEPT !.credibility = Some(NotANumber),
                 !.trust_score = Some(Number(150))],
      [Document(Some("x3"), Some(""), None, Some("b3"), None, None, Some(Number(-500)))
          EXCEPT !.credibility = Some(Number(-500))],
      [Document(Some("x4"), Some("ntv"), Some("u4"), Some("b4"), None, None,
                Some(Number(150)))
          EXCEPT !.kaynak_id = Some("k4"), !.source_id = Some("s4"),
                 !.guvenilirlik = Some(Number(70))],
      Document(None, Some("ntv"), Some("u1"), Some("b5"), Some("o5"), None,
               Some(Number(90))),
      Document(None, Some("ntv"), Some("u1"), Some("b6"), None, None,
               Some(Number(80))),
      [Document(None, None, None, Some("b7"), None, None, Some(Number(70)))
          EXCEPT !.source_id = Some("s7"),
                 !.credibility = Some(NotANumber),
                 !.guvenilirlik = Some(NotANumber)],
      Document(None, None, None, Some("b8"), None, None, Some(Number(100))) }

\* Every list of at most `limit` records.
RecordLists(limit) == UNION {[1..n -> RawRecords] : n \in 0..limit}

\* verify_text was called with a text that passes and a limit of
\* MaxRecords, and is about to search.
InitNormalizer ==
    /\ \E setup \in Setups : engine = setup.engine /\ workflow = setup.workflow
    /\ articles = <<>>
    /\ now = Now0
    /\ result = NoResult
    /\ prev = NoResult
    /\ called_at = <<>>
    /\ trust = DefaultTrust
    /\ pc = "search_primary"
    /\ call = [text |-> Some(Text(120, 110, "deprem haberi")),
               limit |-> Some(MaxRecords)]
    /\ clean_text = Some(prepare_for_similarity_search(Text(120, 110, "deprem haberi")))
    /\ search_log = <<>>
    /\ documents = <<>>
    /\ fallback_used = FALSE
    /\ wf_articles = <<>>
    /\ lookup = EmptyDict
    /\ verification = NoResult
    /\ wf_out = NoResult
    /\ NoTrustCall
    /\ threads = <<>>

\* The primary search returns a list of records.
SearchReturns ==
    /\ pc = "search_primary"
    /\ LET search_limit == _determine_limit(workflow, call.limit)
           query == Get(clean_text)
       IN  \E found \in RecordLists(search_limit) :
             /\ search_log' = Append(search_log,
                    SearchInvocation("search_news_atlas", query, search_limit, FALSE, found))
             /\ documents' = found
             /\ fallback_used' = FALSE
             /\ pc' = "transform"
    /\ UNCHANGED <<engineVars, trustVars, threads, workflow, trust, call, clean_text, wf_articles,
                   lookup, verification, wf_out>>

NextNormalizer ==
    SearchReturns \/ TransformDocument \/ RunVerification \/ ReturnResult

SpecNormalizer == InitNormalizer /\ [][NextNormalizer]_vars

-----------------------------------------------------------------------------
(* The Source-Trust Engine driven by its callers: SpecTrust.               *)

\* The engines of the model: the default construction, and one built with
\* an override and with bias adjustments, one of them large.
TrustSetups ==
    { DefaultTrust,
      SourceTrustService("s1" :> Pct(50),
                         ("left" :> Pct(-10)) @@ ("right" :> Pct(80))) }

TrustSources == {"s1", "s2"}

\* Scores a caller registers: below the range, its lower end, inside, above.
OverrideScores == {Pct(-50), Pct(0), Pct(95), Pct(150)}

SourceTypes == {"fact_checker", "independent_media", "unknown"}

SourceBiases == {"unknown", "left", "right"}

\* Metrics at the ends of the range, out of it on both sides, inside it,
\* and all at the lowest credibility floor.
Metrics ==
    { SourceTrustMetrics(Pct(100), Pct(100), Pct(100), Pct(100)),
      SourceTrustMetrics(Pct(150), Pct(-50), Pct(50), Pct(0)),
      SourceTrustMetrics(Pct(90), Pct(80), Pct(70), Pct(60)),
      SourceTrustMetrics(Pct(40), Pct(40), Pct(40), Pct(40)) }

\* The source type and bias a dynamic score is asked with.
DynamicTypings ==
    {<<"unknown", "unknown">>, <<"fact_checker", "left">>, <<"fact_checker", "right">>}

\* The weight of a combine call: omitted, or out of the range, at its ends,
\* inside it.
ManualWeights == {None, Some(Pct(-50)), Some(Pct(0)), Some(Pct(30)),
                  Some(Pct(100)), Some(Pct(150))}

InitTrust ==
    /\ engine = DefaultEngine
    /\ articles = <<>>
    /\ now = Now0
    /\ result = NoResult
    /\ prev = NoResult
    /\ called_at = <<>>
    /\ workflow = NewsVerificationWorkflow("ntv" :> "mainstream_media",
                                           "trt" :> "left", 2)
    /\ trust \in TrustSetups
    /\ pc = "idle"
    /\ call = NoArguments
    /\ clean_text = None
    /\ search_log = <<>>
    /\ documents = <<>>
    /\ fallback_used = FALSE
    /\ wf_articles = <<>>
    /\ lookup = EmptyDict
    /\ verification = NoResult
    /\ wf_out = NoResult
    /\ NoTrustCall
    /\ threads = <<>>

\* register_manual_override(source_id, score)
RegisterOverride ==
    /\ \E source_id \in TrustSources, score \in OverrideScores :
         /\ trust' = register_manual_override(trust, source_id, score)
         /\ trust_log' = [trust_log EXCEPT
                            !.registered = DictSet(@, source_id, score)]
         /\ trust_call' = [op |-> "register_manual_override",
                           source_id |-> source_id, score |-> score]
    /\ trust_out' = NoResult
    /\ UNCHANGED <<engineVars, callVars, threads>>

\* calculate_manual_score(source_id=, source_type=, bias=)
ManualScore ==
    /\ \E source_id \in TrustSources, source_type \in SourceTypes, bias \in SourceBiases :
         /\ trust_call' = [op |-> "calculate_manual_score",
                           source_id |-> source_id, source_type |-> source_type,
                           bias |-> bias]
         /\ trust_out' = calculate_manual_score(trust, source_id, source_type, bias)
    /\ UNCHANGED <<engineVars, callVars, threads, trust, trust_log>>

\* calculate_dynamic_score(metrics, source_type=, bias=, blend_with_manual=)
DynamicScore ==
    /\ \E metrics \in Metrics, typed \in DynamicTypings, blend_with_manual \in BOOLEAN :
         LET source_type == typed[1]
             bias == typed[2]
         IN
         /\ trust_call' = [op |-> "calculate_dynamic_score", metrics |-> metrics,
                           source_type |-> source_type, bias |-> bias,
                           blend_with_manual |-> blend_with_manual]
         /\ trust_out' = calculate_dynamic_score(trust, metrics, source_type, bias,
                                                 blend_with_manual)
    /\ UNCHANGED <<engineVars, callVars, threads, trust, trust_log>>

\* combine_scores(manual_score, dynamic_score, manual_weight=) on a manual
\* and a dynamic score the caller has just computed.
CombineScores ==
    /\ \E source_id \in TrustSources, metrics \in Metrics,
          manual_weight \in ManualWeights :
         \E manual_score \in {calculate_manual_score(trust, source_id, "fact_checker",
                                                     "unknown")},
            dynamic_score \in {calculate_dynamic_score(trust, metrics, "unknown",
                                                       "unknown", FALSE)} :
             /\ trust_call' = [op |-> "combine_scores", manual_score |-> manual_score,
                               dynamic_score |-> dynamic_score,
                               manual_weight |-> manual_weight]
             /\ trust_out' = combine_scores(trust, manual_score, dynamic_score,
                                            manual_weight)
    /\ UNCHANGED <<engineVars, callVars, threads, trust, trust_log>>

\* verify_text's use of the trust engine: _extract_credibility on a record
\* a search returned.
ExtractCredibility ==
    /\ \E a \in Collection :
         LET document == Document(a._id, a.kaynak, a.url, a.baslik, a.ozet, a.tarih, None)
             source_id == _extract_source_id(document, 1)
         IN  /\ trust_call' = [op |-> "_extract_credibility", document |-> document,
                               source_id |-> source_id]
             /\ trust_out' = [kind |-> "float",
                              value |-> _extract_credibility(workflow, trust, document,
                                                             source_id)]
    /\ UNCHANGED <<engineVars, callVars, threads, trust, trust_log>>

NextTrust ==
    \/ RegisterOverride
    \/ ManualScore
    \/ DynamicScore
    \/ CombineScores
    \/ ExtractCredibility

SpecTrust == InitTrust /\ [][NextTrust]_vars

-----------------------------------------------------------------------------
(* verify_text while another thread registers overrides on the trust       *)
(* engine the workflow holds: SpecInterleaved.  Neither the workflow nor   *)
(* the engine takes a lock, so a registration may fall between any two     *)
(* steps of the call.                                                      *)

\* The source the other thread registers overrides for: the source of two
\* of the raw records.
RegisteredSources == {"ntv"}

\* register_manual_override(source_id, score) from another thread, while
\* the call has not ended.
RegisterDuringCall ==
    /\ pc \in {"search_primary", "transform", "merge"}
    /\ \E source_id \in RegisteredSources, score \in OverrideScores :
         /\ trust' = register_manual_override(trust, source_id, score)
         /\ trust_log' = [trust_log EXCEPT
                            !.registered = DictSet(@, source_id, score)]
         /\ trust_call' = [op |-> "register_manual_override",
                           source_id |-> source_id, score |-> score]
    /\ trust_out' = NoResult
    /\ UNCHANGED <<engineVars, callVars, threads>>

NextInterleaved ==
    \/ SearchReturns
    \/ TransformDocument
    \/ RunVerification
    \/ ReturnResult
    \/ RegisterDuringCall

SpecInterleaved == InitNormalizer /\ [][NextInterleaved]_vars

-----------------------------------------------------------------------------
(* The two clamps called on their own: SpecClamp.                          *)

\* Values, minimums and maximums in hundredths: every order of the three
\* occurs, inverted ranges included.
ClampArguments == {-50, 0, 40, 100, 120}

\* _clamp(value, minimum, maximum) of source_trust_service.py
ClampTrust ==
    /\ \E value \in ClampArguments, minimum \in ClampArguments, maximum \in ClampArguments :
         /\ trust_call' = [op |-> "_clamp", module |-> "source_trust_service",
                           value |-> value, minimum |-> minimum, maximum |-> maximum]
         /\ \E out \in {trust_clamp(Pct(value), Pct(minimum), Pct(maximum))} :
              trust_out' = IF out = VerificationException THEN out
                           ELSE [kind |-> "float", value |-> out]
    /\ UNCHANGED <<engineVars, callVars, threads, trust, trust_log>>

\* _clamp(value, minimum, maximum) of verification_service.py
ClampEngine ==
    /\ \E value \in ClampArguments, minimum \in ClampArguments, maximum \in ClampArguments :
         /\ trust_call' = [op |-> "_clamp", module |-> "verification_service",
                           value |-> value, minimum |-> minimum, maximum |-> maximum]
         /\ trust_out' = [kind |-> "float", value |-> Pct(_clamp(value, minimum, maximum))]
    /\ UNCHANGED <<engineVars, callVars, threads, trust, trust_log>>

NextClamp == ClampTrust \/ ClampEngine

SpecClamp == InitTrust /\ [][NextClamp]_vars

-----------------------------------------------------------------------------
(* The recency factor on dated lists: SpecRecency.  An engine that asks    *)
(* for one source is handed candidates published at and around the ages of *)
(* 7, 30 and 90 days, undated ones, and one that the filter drops.         *)

RecencyEngine == VerificationService(SIMILARITY_THRESHOLD, 1, DIVERSITY_THRESHOLD)

\* published_at of the candidates: none, two times in the hour of Now0, and
\* 7, 8, 30, 31, 90 and 91 days before Now0.
PublicationTimes ==
    {None, Some(Now0 - 1)}
        \cup {Some(Now0 - days * DayTicks) : days \in {0, 7, 8, 30, 31, 90, 91}}

\* The factor does not depend on the order of the list: the lists of the
\* model have the undated candidates first and the dated ones oldest first.
InListOrder(arts, pub) ==
    IF arts = <<>> THEN TRUE
    ELSE IF IsNone(arts[Len(arts)].published_at) THEN TRUE
    ELSE IF IsNone(pub) THEN FALSE
    ELSE Get(arts[Len(arts)].published_at) <= Get(pub)

\* Similarity and publication time of a candidate: any publication time on a
\* candidate that passes the filter, and a fresh date on one that does not.
RecencyProfiles ==
    {[sim |-> 90, pub |-> pub] : pub \in PublicationTimes}
        \cup {[sim |-> 60, pub |-> Some(Now0)]}

InitRecency ==
    /\ engine = RecencyEngine
    /\ articles = <<>>
    /\ now = Now0
    /\ result = NoResult
    /\ prev = NoResult
    /\ called_at = <<>>
    /\ NoCall
    /\ NoTrustCall
    /\ threads = <<>>

\* The caller appends one candidate, each from a source of its own.
AddDated ==
    /\ result = NoResult
    /\ Len(articles) < MaxDated
    /\ \E p \in RecencyProfiles :
         /\ InListOrder(articles, p.pub)
         /\ articles' = Append(articles,
                               SimilarArticle(Len(articles) + 1, p.sim, 90, None,
                                              p.pub, None, None))
    /\ UNCHANGED <<engine, now, result, prev, called_at, workflowVars, trustVars, threads>>

\* verify(articles) is called once and returns or raises.
VerifyDated ==
    /\ result = NoResult
    /\ result' = verify(engine, articles, now)
    /\ called_at' = Append(called_at, now)
    /\ UNCHANGED <<engine, articles, now, prev, workflowVars, trustVars, threads>>

NextRecency == AddDated \/ Tick \/ VerifyDated

SpecRecency == InitRecency /\ [][NextRecency]_vars

-----------------------------------------------------------------------------
(* The geography factor: SpecGeography.  The engine of SpecRecency is      *)
(* handed undated candidates with and without country codes, and is then   *)
(* called again on the same list with a country code given to a candidate  *)
(* that had none.                                                          *)

\* Similarity and country code of a candidate, in the order the caller
\* appends them: no code, an empty code, one country in two spellings, five
\* more countries, and a candidate with a country that the filter drops.
PlaceKinds ==
    << [sim |-> 100, cc |-> None],
       [sim |-> 100, cc |-> Some("")],
       [sim |-> 100, cc |-> Some("tr")],
       [sim |-> 100, cc |-> Some("TR")],
       [sim |-> 100, cc |-> Some("US")],
       [sim |-> 100, cc |-> Some("DE")],
       [sim |-> 100, cc |-> Some("FR")],
       [sim |-> 100, cc |-> Some("GB")],
       [sim |-> 100, cc |-> Some("JP")],
       [sim |-> 60, cc |-> Some("IT")] >>

KindOfPlace(a) ==
    CHOOSE k \in 1..Len(PlaceKinds) :
        PlaceKinds[k].sim = a.similarity /\ PlaceKinds[k].cc = a.country_code

\* The caller appends one candidate from a source of its own, kinds in
\* non-decreasing order (the factor does not depend on the order).
AddPlace ==
    /\ result = NoResult
    /\ Len(articles) < MaxPlaces
    /\ \E k \in 1..Len(PlaceKinds) :
         /\ articles # <<>> => KindOfPlace(articles[Len(articles)]) <= k
         /\ articles' = Append(articles,
                               SimilarArticle(Len(articles) + 1, PlaceKinds[k].sim,
                                              100, None, None, PlaceKinds[k].cc, None))
    /\ UNCHANGED <<engine, now, result, prev, called_at, workflowVars, trustVars, threads>>

\* After a first result, verify is called on the same list with a country
\* code on one candidate that had none.
VerifyWithCountry ==
    /\ result.kind = "VerificationResult"
    /\ prev = NoResult
    /\ \E i \in 1..Len(articles), code \in {"TR", "US"} :
         /\ ~Truthy(articles[i].country_code)
         /\ LET given == [articles EXCEPT ![i].country_code = Some(code)]
            IN  /\ articles' = given
                /\ result' = verify(engine, given, now)
    /\ prev' = result
    /\ called_at' = Append(called_at, now)
    /\ UNCHANGED <<engine, now, workflowVars, trustVars, threads>>

NextGeography == AddPlace \/ VerifyDated \/ VerifyWithCountry

SpecGeography == InitRecency /\ [][NextGeography]_vars

-----------------------------------------------------------------------------
(* Concurrent callers of one engine: SpecThreads.  Each call of verify     *)
(* runs in a frame of its own, statement by statement, interleaved with    *)
(* the other calls and with the clock.                                     *)

\* The lists the callers pass: empty; three undated sources; two sources
\* seven days old at Now0; three sources at the default similarity threshold.
ThreadInputs ==
    { <<>>,
      << SimilarArticle(1, 90, 90, None, None, None, None),
         SimilarArticle(2, 95, 80, None, None, None, None),
         SimilarArticle(3, 90, 70, None, None, None, None) >>,
      << SimilarArticle(1, 100, 100, None, Some(Now0 - 7 * DayTicks), Some("tr"), None),
         SimilarArticle(2, 100, 100, None, Some(Now0 - 7 * DayTicks), Some("us"), None) >>,
      << SimilarArticle(4, 65, 90, None, Some(Now0), None, None),
         SimilarArticle(5, 65, 50, None, None, None, None),
         SimilarArticle(6, 65, 150, None, None, None, None) >> }

\* The frame of a call of verify at its first statement: the argument, and
\* no local bound yet.
Frame(arts) ==
    [pc |-> "select", articles |-> arts, selected |-> <<>>,
     unique_sources |-> {}, clock |-> None,
     weighted_average |-> None, diversity_factor |-> None,
     recency_factor |-> None, geography_factor |-> None,
     out |-> NoResult]

\* Mutant: the selection is kept on the engine, where every call reads it.
_bind_selected_on_instance(frames, t, selected) ==
    [i \in 1..Len(frames) |-> [frames[i] EXCEPT !.selected = selected]]

\* selected = self._select_articles(articles): a local of the call's frame.
_bind_selected(frames, t, selected) ==
    [frames EXCEPT ![t].selected = selected]

InitThreads ==
    /\ engine \in Engines
    /\ articles = <<>>
    /\ now = Now0
    /\ result = NoResult
    /\ prev = NoResult
    /\ called_at = <<>>
    /\ NoCall
    /\ NoTrustCall
    /\ threads = <<>>

\* One more caller enters verify on the shared engine.
ThreadCall ==
    /\ Len(threads) < MaxThreads
    /\ \E arts \in ThreadInputs : threads' = Append(threads, Frame(arts))
    /\ UNCHANGED <<engineVars, workflowVars, trustVars>>

\* Lines 91-93: the selection, and the fault when nothing is selected.
ThreadSelect ==
    /\ \E t \in 1..Len(threads) :
         /\ threads[t].pc = "select"
         /\ LET selected == _select_articles(engine, threads[t].articles)
                bound == _bind_selected(threads, t, selected)
            IN  threads' =
                    IF selected = <<>>
                    THEN [bound EXCEPT ![t].pc = "raised",
                                       ![t].out = NoSimilarArticlesException]
                    ELSE [bound EXCEPT ![t].pc = "count"]
    /\ UNCHANGED <<engineVars, workflowVars, trustVars>>

\* Lines 95-97: the unique sources, and the fault when they are too few.
ThreadCount ==
    /\ \E t \in 1..Len(threads) :
         /\ threads[t].pc = "count"
         /\ LET unique_sources == _unique_sources(threads[t].selected)
            IN  threads' =
                    IF _too_few_sources(engine, unique_sources)
                    THEN [threads EXCEPT
                            ![t].unique_sources = unique_sources,
                            ![t].pc = "raised",
                            ![t].out = InsufficientDataException(
                                           engine.min_sources,
                                           Cardinality(unique_sources))]
                    ELSE [threads EXCEPT ![t].unique_sources = unique_sources,
                                         ![t].pc = "factors"]
    /\ UNCHANGED <<engineVars, workflowVars, trustVars>>

\* Lines 99-102: the four factors; the recency factor reads the clock.
ThreadFactors ==
    /\ \E t \in 1..Len(threads) :
         /\ threads[t].pc = "factors"
         /\ LET selected == threads[t].selected
            IN  threads' = [threads EXCEPT
                    ![t].weighted_average =
                        Some(_calculate_weighted_average(selected)),
                    ![t].diversity_factor =
                        Some(_calculate_diversity_factor(
                                 engine, Cardinality(threads[t].unique_sources))),
                    ![t].clock = Some(now),
                    ![t].recency_factor =
                        Some(_calculate_recency_factor(selected, now)),
                    ![t].geography_factor =
                        Some(_calculate_geography_factor(selected)),
                    ![t].pc = "score"]
    /\ UNCHANGED <<engineVars, workflowVars, trustVars>>

\* Lines 104-120: the score, the status, the confidence and the result.
ThreadScore ==
    /\ \E t \in 1..Len(threads) :
         /\ threads[t].pc = "score"
         /\ LET frame == threads[t]
                score == _score(_raw_score(Get(frame.weighted_average),
                                           Get(frame.diversity_factor),
                                           Get(frame.recency_factor),
                                           Get(frame.geography_factor)))
                decided == _determine_status(score,
                                             Cardinality(frame.unique_sources))
            IN  threads' = [threads EXCEPT
                    ![t].pc = "returned",
                    ![t].out =
                        [kind |-> "VerificationResult",
                         score |-> score,
                         status |-> decided[1],
                         confidence |-> _determine_confidence(score),
                         unique_sources |-> Cardinality(frame.unique_sources),
                         diversity_factor |-> Get(frame.diversity_factor),
                         recency_factor |-> Get(frame.recency_factor),
                         geography_factor |-> Get(frame.geography_factor),
                         reasoning |-> decided[2],
                         supporting_articles |-> frame.selected]]
    /\ UNCHANGED <<engineVars, workflowVars, trustVars>>

NextThreads ==
    ThreadCall \/ ThreadSelect \/ ThreadCount \/ ThreadFactors \/ ThreadScore \/ Tick

SpecThreads == InitThreads /\ [][NextThreads]_vars

-----------------------------------------------------------------------------
(* The claims.  What a claim says is written here from its own words, over *)
(* the caller's list and the outcome, not with the operators above.        *)

Called == result # NoResult
Succeeded == result.kind = "VerificationResult"

Clamp01(x) == IF x < 0 THEN 0 ELSE IF x > 100 THEN 100 ELSE x

\* The positions of the candidates that pass the similarity filter.
Survivors == {i \in 1..Len(articles) :
                Clamp01(articles[i].similarity) >= engine.similarity_threshold}

SurvivorSources == {articles[i].source_id : i \in Survivors}

LadderStatus(score, sources) ==
    IF score >= 8000 /\ sources >= 10 THEN "VERIFIED"
    ELSE IF score >= 7000 /\ sources >= 7 THEN "LIKELY_TRUE"
    ELSE IF score >= 5000 /\ sources >= 5 THEN "UNCERTAIN"
    ELSE IF score >= 3000 /\ sources >= 3 THEN "DISPUTED"
    ELSE "UNVERIFIED"

\* C1: on success the status is the first rung of VERIFIED (0.80, 10),
\* LIKELY_TRUE (0.70, 7), UNCERTAIN (0.50, 5), DISPUTED (0.30, 3) that the
\* result's own score and unique_sources both satisfy, UNVERIFIED exactly when
\* none does; a score of 0.85 with 8 sources gives LIKELY_TRUE.
C1_StatusIsFirstRung ==
    /\ Succeeded => result.status = LadderStatus(result.score, result.unique_sources)
    /\ _determine_status(8500, 8)[1] = "LIKELY_TRUE"

\* A score that qualifies for VERIFIED, demoted for its 7 to 9 sources.
C1_Witness ==
    /\ Succeeded
    /\ result.score >= 8000
    /\ result.unique_sources \in 7..9
    /\ result.status = "LIKELY_TRUE"

\* C2: verify raises no-similar-articles if and only if no candidate has a
\* clamped similarity at or above the threshold (one exactly at it survives);
\* the outcome is then the fault alone.
C2_NoSimilarIffNoSurvivor ==
    Called => ((result = [kind |-> "NoSimilarArticlesException"]) <=> (Survivors = {}))

\* The fault on a non-empty list.
C2_Witness ==
    /\ Called
    /\ result.kind = "NoSimilarArticlesException"
    /\ Len(articles) >= 2

\* C3: verify raises insufficient-data if and only if some candidate survives
\* and the survivors' distinct source_ids are fewer than the minimum; the
\* fault carries required = the minimum and found = that count, never 0.
C3_InsufficientIffFewSources ==
    Called =>
        /\ (result.kind = "InsufficientDataException") <=>
               (Survivors # {} /\ Cardinality(SurvivorSources) < engine.min_sources)
        /\ result.kind = "InsufficientDataException" =>
               /\ result.required_sources = engine.min_sources
               /\ result.found_sources = Cardinality(SurvivorSources)
               /\ result.found_sources >= 1

\* Three survivors from two sources under the default minimum of 3.
C3_Witness ==
    /\ Called
    /\ result.kind = "InsufficientDataException"
    /\ result.required_sources = 3
    /\ result.found_sources = 2
    /\ Cardinality(Survivors) = 3

\* The sum of clamped credibility x clamped similarity over the survivors
\* among the first k candidates.
RECURSIVE SurvivorProducts(_)
SurvivorProducts(k) ==
    IF k = 0 THEN 0
    ELSE SurvivorProducts(k - 1)
         + (IF k \in Survivors
            THEN Clamp01(articles[k].credibility) * Clamp01(articles[k].similarity)
            ELSE 0)

\* clamp to [0,1] of round(W x D x R x G, 4), with D, R, G taken from the
\* result itself.
ScoreFromFactors ==
    LET W == Rat(SurvivorProducts(Len(articles)), 10000 * Cardinality(Survivors))
        raw == RatMul(RatMul(RatMul(W, result.diversity_factor),
                             result.recency_factor), result.geography_factor)
        scaled == RatMul(raw, Rat(10000, 1))
        rounded == RoundHalfEven(Num(scaled), Den(scaled))
    IN  IF rounded < 0 THEN 0 ELSE IF rounded > 10000 THEN 10000 ELSE rounded

\* Ten candidates from ten sources, similarity and credibility 0.90, no
\* country, each published at `pub`.
ScenarioA(pub) == [i \in 1..10 |-> SimilarArticle(i, 90, 90, None, pub, None, None)]

\* C4 as stated: the score is the clamped, rounded product of W and the
\* returned factors, and scenario A published now scores 0.81.
C4_AsStated ==
    /\ Succeeded => result.score = ScoreFromFactors
    /\ (Succeeded /\ articles = ScenarioA(Some(now))) =>
           /\ result.score = 8100
           /\ result.status = "VERIFIED"
           /\ result.confidence = "HIGH"

\* C4 as amended: the formula holds; scenario A published now has all ten in
\* one clock hour, so its recency factor is 1.2 and its score 0.972 (VERIFIED,
\* HIGH); without publication times it scores 0.81 (VERIFIED, HIGH).
C4_ScoreFormula ==
    /\ Succeeded => result.score = ScoreFromFactors
    /\ (Succeeded /\ articles = ScenarioA(Some(now))) =>
           /\ result.recency_factor = Rat(12, 10)
           /\ result.score = 9720
           /\ result.status = "VERIFIED"
           /\ result.confidence = "HIGH"
    /\ (Succeeded /\ articles = ScenarioA(None)) =>
           /\ result.recency_factor = Rat(1, 1)
           /\ result.score = 8100
           /\ result.status = "VERIFIED"
           /\ result.confidence = "HIGH"

\* Scenario A, published now, verified.
C4_Witness == Succeeded /\ articles = ScenarioA(Some(now))

\* C5: every result has 0 <= score <= 1.
C5_ScoreInUnitRange ==
    Succeeded => (0 <= result.score /\ result.score <= 10000)

\* A result with the recency factor boosted above 1, a raw similarity above
\* 1, and the product W x D x R x G above 1.
C5_Witness ==
    /\ Succeeded
    /\ RatLt(Rat(1, 1), result.recency_factor)
    /\ \E i \in Survivors : articles[i].similarity > 100
    /\ RatLt(Rat(1, 1),
             RatMul(RatMul(RatMul(Rat(SurvivorProducts(Len(articles)),
                                      10000 * Cardinality(Survivors)),
                                  result.diversity_factor),
                           result.recency_factor), result.geography_factor))
    /\ result.score = 10000

\* C6: the confidence is HIGH for a score >= 0.80, MEDIUM for 0.50 <= score
\* < 0.80, LOW below, whatever the status and the number of sources.
C6_ConfidenceByScore ==
    Succeeded =>
        result.confidence = (IF result.score >= 8000 THEN "HIGH"
                             ELSE IF result.score >= 5000 THEN "MEDIUM"
                             ELSE "LOW")

\* HIGH confidence on a result that is not VERIFIED.
C6_Witness ==
    /\ Succeeded
    /\ result.confidence = "HIGH"
    /\ result.status = "LIKELY_TRUE"
    /\ result.unique_sources < 10

\* The candidate at position i as the supporting list must hold it.
ClampedCopy(i) ==
    [articles[i] EXCEPT !.similarity = Clamp01(articles[i].similarity),
                        !.credibility = Clamp01(articles[i].credibility)]

\* C7: the supporting list holds exactly the candidates that pass the filter,
\* in input order, each with similarity and credibility clamped to [0,1];
\* the only faults are the two of the source gates.
C7_SupportingArticles ==
    /\ Called => result.kind \in {"VerificationResult", "NoSimilarArticlesException",
                                  "InsufficientDataException"}
    /\ Succeeded =>
        LET sup == result.supporting_articles
            pos(i) == Cardinality({j \in Survivors : j <= i})
        IN  /\ Len(sup) = Cardinality(Survivors)
            /\ \A i \in Survivors : sup[pos(i)] = ClampedCopy(i)
            /\ \A k \in 1..Len(sup) :
                 /\ 0 <= sup[k].similarity /\ sup[k].similarity <= 100
                 /\ 0 <= sup[k].credibility /\ sup[k].credibility <= 100

\* A result whose list drops a candidate between two it keeps, one of them
\* with a raw value outside [0,1].
C7_Witness ==
    /\ Succeeded
    /\ \E i, j, k \in 1..Len(articles) :
         /\ i < j /\ j < k
         /\ i \in Survivors /\ j \notin Survivors /\ k \in Survivors
         /\ articles[i].similarity > 100
         /\ articles[k].credibility < 0

TwoCalls == prev # NoResult

\* C8 as stated: a second verify on the same list returns what the first did.
C8_AsStated == TwoCalls => result = prev

AgeBracket(age) ==
    IF age <= 7 * DayTicks THEN 1
    ELSE IF age <= 30 * DayTicks THEN 2
    ELSE IF age <= 90 * DayTicks THEN 3
    ELSE 4

\* No dated survivor is in a different age bracket at the second call.
SameAgeBrackets ==
    \A i \in Survivors :
        ~IsNone(articles[i].published_at) =>
            AgeBracket(called_at[1] - Get(articles[i].published_at))
                = AgeBracket(called_at[2] - Get(articles[i].published_at))

\* C8 as amended: the two outcomes are identical whenever no dated surviving
\* candidate has moved to another age bracket (7, 30, 90 days) between the
\* calls, so always when no survivor is dated or no time has passed.
C8_IdempotentWithinAgeBrackets ==
    (TwoCalls /\ SameAgeBrackets) => result = prev

\* Two successful calls at different times on a list with a dated survivor.
C8_Witness ==
    /\ TwoCalls
    /\ Succeeded
    /\ called_at[1] # called_at[2]
    /\ \E i \in Survivors : ~IsNone(articles[i].published_at)
    /\ result = prev

-----------------------------------------------------------------------------
(* The claims about verify_text, over the log of search invocations and    *)
(* what the call handed back.                                              *)

WfDone == pc \in {"returned", "raised"}

PrimaryCalls == {i \in 1..Len(search_log) : search_log[i].fn = "search_news_atlas"}

FallbackCalls == {i \in 1..Len(search_log) : search_log[i].fn = "search_news_regex"}

PrimaryRaised == search_log # <<>> /\ search_log[1].raised

\* The call ended with a validation fault of the normalization.
RejectedText ==
    /\ pc = "raised"
    /\ wf_out.kind \in {"ValidationException", "TextTooLongException",
                        "TextTooShortException"}

\* The fallback search runs at most once, second, after a primary search
\* that raised, with the primary's query and limit; the flag of a returned
\* result tells which search the records came from.
FallbackDiscipline ==
    /\ Cardinality(PrimaryCalls) <= 1
    /\ Cardinality(FallbackCalls) <= 1
    /\ \A j \in FallbackCalls :
         /\ j = 2
         /\ search_log[1].fn = "search_news_atlas"
         /\ search_log[1].raised
         /\ search_log[2].query = search_log[1].query
         /\ search_log[2].limit = search_log[1].limit
    /\ pc = "returned" =>
         LET last == search_log[Len(search_log)]
         IN  /\ ~last.raised
             /\ documents = last.returned
             /\ wf_out.fallback_used = (last.fn = "search_news_regex")
             /\ ~search_log[1].raised => ~wf_out.fallback_used

\* C9, as the spec states it: in every verify_text call the primary search
\* is invoked exactly once; the fallback at most once, only after the
\* primary raised, with the same query and limit; fallback_used tells where
\* the records came from; no search is retried.
C9_AsStated ==
    WfDone => (Cardinality(PrimaryCalls) = 1 /\ FallbackDiscipline)

\* C9 as amended: in every verify_text call whose text passes normalization
\* the primary search is invoked exactly once, and a call whose text is
\* rejected invokes no search; the fallback is invoked at most once, only
\* after the primary raised, with the same query and limit; fallback_used
\* is true exactly when the records came from the fallback search; no
\* search is retried.
C9_SearchDiscipline ==
    /\ FallbackDiscipline
    /\ \A i \in 1..Len(search_log) : search_log[i].query = Get(clean_text)
    /\ WfDone => IF RejectedText THEN search_log = <<>>
                 ELSE Cardinality(PrimaryCalls) = 1

\* A call returned a result built on the records of the fallback search,
\* made with a limit the caller chose.
C9_Witness ==
    /\ pc = "returned"
    /\ wf_out.fallback_used
    /\ Len(search_log) = 2
    /\ documents # <<>>
    /\ call.limit = Some(search_log[2].limit)

\* C10, as the spec states it: a search-backend failure never reaches the
\* caller of verify_text as an exception; when the primary search raises,
\* the fallback is substituted and the caller sees only the flag.
C10_AsStated ==
    /\ pc = "raised" => wf_out.kind # "PyMongoError"
    /\ (WfDone /\ PrimaryRaised) => Cardinality(FallbackCalls) = 1

\* C10 as amended: an error of the primary search never reaches the caller:
\* whenever the primary search raises, the fallback search is substituted,
\* and if the fallback returns, the caller sees of the failure only the
\* flag, set on any result returned; if the fallback search raises too, its
\* error does reach the caller of verify_text.
C10_PrimaryFailureRecovered ==
    /\ (WfDone /\ PrimaryRaised) =>
         /\ Cardinality(FallbackCalls) = 1
         /\ IF search_log[2].raised
            THEN pc = "raised" /\ wf_out = PyMongoError("search_news_regex")
            ELSE /\ pc = "returned" => wf_out.fallback_used
                 /\ pc = "raised" => wf_out.kind # "PyMongoError"
    /\ (pc = "raised" /\ wf_out.kind = "PyMongoError") =>
         /\ wf_out.raised_by = "search_news_regex"
         /\ Len(search_log) = 2
         /\ search_log[1].raised /\ search_log[2].raised

\* Both searches raised and the call ended.
C10_Witness ==
    /\ WfDone
    /\ PrimaryRaised
    /\ Len(search_log) = 2
    /\ search_log[2].raised

\* The validation fault the text of the call must meet, None if it passes:
\* empty, longer than 50000 characters, shorter than 100 once cleaned.
ExpectedValidationFault ==
    LET text == Get(call.text)
    IN  IF text.chars = 0
        THEN Some([kind |-> "ValidationException", error_code |-> "VAL_004"])
        ELSE IF text.chars > 50000
        THEN Some([kind |-> "TextTooLongException", length |-> text.chars,
                   max_length |-> 50000])
        ELSE IF text.cleaned.chars < 100
        THEN Some([kind |-> "TextTooShortException", length |-> text.cleaned.chars,
                   min_length |-> 100])
        ELSE None

\* The candidates verify_text built that pass the engine's filter, and
\* their sources.
WfSurvivors == {i \in 1..Len(wf_articles) :
                  wf_articles[i].similarity >= engine.similarity_threshold}

WfSurvivorSources == {wf_articles[i].source_id : i \in WfSurvivors}

\* C11: a validation fault of the normalization leaves verify_text as it
\* is, and neither search nor the Decision Engine has been invoked; a
\* no-similar-articles or insufficient-data fault of the Decision Engine
\* leaves verify_text unchanged, and no result is returned with it.
C11_FaultsPropagate ==
    /\ (WfDone /\ ~IsNone(ExpectedValidationFault)) =>
         /\ pc = "raised"
         /\ wf_out = Get(ExpectedValidationFault)
    /\ RejectedText =>
         /\ wf_out = Get(ExpectedValidationFault)
         /\ search_log = <<>>
         /\ called_at = <<>>
    /\ (WfDone /\ called_at # <<>>) =>
         IF WfSurvivors = {}
         THEN pc = "raised" /\ wf_out = [kind |-> "NoSimilarArticlesException"]
         ELSE IF Cardinality(WfSurvivorSources) < engine.min_sources
         THEN /\ pc = "raised"
              /\ wf_out = [kind |-> "InsufficientDataException",
                           required_sources |-> engine.min_sources,
                           found_sources |-> Cardinality(WfSurvivorSources)]
         ELSE pc = "returned"
    /\ pc = "raised" => verification = NoResult /\ Len(called_at) <= 1

\* The engine found two sources where three are required, and the call
\* ended with that fault.
C11_Witness ==
    /\ pc = "raised"
    /\ wf_out.kind = "InsufficientDataException"
    /\ wf_out.found_sources = 2
    /\ Len(search_log) = 1

-----------------------------------------------------------------------------
(* The claims about the Source-Trust Engine, over the latest call, what it *)
(* returned and what the callers have registered.                          *)

ClampUnit(x) ==
    IF RatLt(x, RatZero) THEN RatZero ELSE IF RatLt(RatOne, x) THEN RatOne ELSE x

TypeBaseline(source_type) ==
    CASE source_type = "fact_checker" -> Rat(90, 100)
      [] source_type \in {"mainstream_media", "government"} -> Rat(80, 100)
      [] source_type = "independent_media" -> Rat(65, 100)
      [] OTHER -> Rat(40, 100)

\* The engine was built without overrides or bias adjustments.
BuiltPlain ==
    /\ DOMAIN trust_log.built.manual_overrides = {}
    /\ DOMAIN trust_log.built.bias_adjustments = {}

\* The adjustment the engine was built with for a bias, 0 when none.
ConfiguredAdjustment(bias) ==
    IF bias \in DOMAIN trust_log.built.bias_adjustments
    THEN trust_log.built.bias_adjustments[bias]
    ELSE RatZero

\* C12: on an engine built without overrides or bias adjustments, a manual
\* score for source s is the score most recently registered for s, clamped
\* to [0,1], an override of 0.0 included, and the baseline of the given
\* source type when none was registered; it is tagged method=manual.
C12_ManualScoreFollowsOverride ==
    (trust_call.op = "calculate_manual_score" /\ BuiltPlain) =>
        /\ trust_out.method = "manual"
        /\ trust_out.score =
             IF trust_call.source_id \in DOMAIN trust_log.registered
             THEN ClampUnit(trust_log.registered[trust_call.source_id])
             ELSE TypeBaseline(trust_call.source_type)

\* A fact-checker source with an override of 0.0 registered is scored 0.0,
\* after another source was given another score.
C12_Witness ==
    /\ trust_call.op = "calculate_manual_score"
    /\ BuiltPlain
    /\ trust_call.source_type = "fact_checker"
    /\ DOMAIN trust_log.registered = {"s1", "s2"}
    /\ trust_log.registered[trust_call.source_id] = RatZero
    /\ \E other \in DOMAIN trust_log.registered :
         trust_log.registered[other] = Rat(95, 100)
    /\ trust_out.score = RatZero

\* 0.40 x accuracy + 0.30 x editorial + 0.20 x transparency + 0.10 x
\* correction speed, each metric clamped to [0,1].
WeightedMetrics(m) ==
    RatAdd(RatAdd(RatMul(Rat(40, 100), ClampUnit(m.accuracy_history)),
                  RatMul(Rat(30, 100), ClampUnit(m.editorial_standards))),
           RatAdd(RatMul(Rat(20, 100), ClampUnit(m.transparency_level)),
                  RatMul(Rat(10, 100), ClampUnit(m.correction_speed))))

\* C13: the dynamic score is clamp to [0,1] of (b + adj): w the weighted
\* sum of the clamped metrics, b = (w + type baseline) / 2 when blending is
\* requested and w otherwise, adj the configured adjustment of the bias;
\* it lies in [0,1] and is tagged method=dynamic.
C13_DynamicScore ==
    trust_call.op = "calculate_dynamic_score" =>
        LET w == WeightedMetrics(trust_call.metrics)
            b == IF trust_call.blend_with_manual
                 THEN RatMul(RatAdd(w, TypeBaseline(trust_call.source_type)), Rat(1, 2))
                 ELSE w
            adj == ConfiguredAdjustment(trust_call.bias)
        IN  /\ trust_out.score = ClampUnit(RatAdd(b, adj))
            /\ RatLe(RatZero, trust_out.score)
            /\ RatLe(trust_out.score, RatOne)
            /\ trust_out.method = "dynamic"

\* Metrics out of range, blended with the fact-checker baseline and
\* lowered by a configured adjustment: (0.5 + 0.9) / 2 - 0.1 = 0.6.
C13_Witness ==
    /\ trust_call.op = "calculate_dynamic_score"
    /\ trust_call.blend_with_manual
    /\ trust_call.bias = "left"
    /\ ConfiguredAdjustment("left") = Rat(-10, 100)
    /\ RatLt(RatOne, trust_call.metrics.accuracy_history)
    /\ trust_out.score = Rat(60, 100)

\* The weight of the combine call: 0.5 when omitted.
GivenWeight == IF IsNone(trust_call.manual_weight) THEN Rat(1, 2)
               ELSE Get(trust_call.manual_weight)

TierLadder(score) ==
    IF RatLe(Rat(90, 100), score) THEN "very_high"
    ELSE IF RatLe(Rat(80, 100), score) THEN "high"
    ELSE IF RatLe(Rat(65, 100), score) THEN "medium"
    ELSE IF RatLt(Rat(40, 100), score) THEN "low"
    ELSE "very_low"

\* C15: every trust score returned by manual score, dynamic score or
\* combine carries the tier of the ladder applied to its own score:
\* >= 0.90 very_high, >= 0.80 high, >= 0.65 medium, > 0.40 low, else
\* very_low.
C15_TierOfReturnedScore ==
    trust_call.op \in {"calculate_manual_score", "calculate_dynamic_score",
                       "combine_scores"} =>
        trust_out.tier = TierLadder(trust_out.score)

\* combine returned exactly 0.40, tier very_low.
C15_Witness ==
    /\ trust_call.op = "combine_scores"
    /\ trust_out.score = Rat(40, 100)
    /\ trust_out.tier = "very_low"

\* C17: manual score, dynamic score, combine and verify_text's use of the
\* engine leave the override map, the bias adjustments and the baseline
\* table as they were; register-override(s, x) sets the override of s to x
\* clamped to [0,1] and changes nothing else, so the manual score of every
\* other source is what it was.
C17_Frame ==
    [][ /\ trust_call'.op \in {"calculate_manual_score", "calculate_dynamic_score",
                               "combine_scores", "_extract_credibility"}
           => trust' = trust
        /\ trust_call'.op = "register_manual_override" =>
             /\ trust'.bias_adjustments = trust.bias_adjustments
             /\ trust'.baseline_by_type = trust.baseline_by_type
             /\ DOMAIN trust'.overrides = DOMAIN trust.overrides \cup {trust_call'.source_id}
             /\ trust'.overrides[trust_call'.source_id] = ClampUnit(trust_call'.score)
             /\ \A other \in DOMAIN trust.overrides \ {trust_call'.source_id} :
                  trust'.overrides[other] = trust.overrides[other]
             /\ \A other \in TrustSources \ {trust_call'.source_id},
                   source_type \in SourceTypes, bias \in SourceBiases :
                  calculate_manual_score(trust', other, source_type, bias)
                    = calculate_manual_score(trust, other, source_type, bias)
      ]_vars

\* An override was registered for s2 while s1 holds the 0.95 registered
\* for it before.
C17_Witness ==
    /\ trust_call.op = "register_manual_override"
    /\ trust_call.source_id = "s2"
    /\ "s1" \in DOMAIN trust_log.registered
    /\ trust_log.registered["s1"] = Rat(95, 100)
    /\ trust.overrides["s1"] = Rat(95, 100)
    /\ trust.overrides["s2"] = ClampUnit(trust_call.score)

\* C16: whenever a clamp is invoked with a minimum greater than its
\* maximum, the call fails with a verification-domain fault and returns no
\* value, in the Source-Trust Engine and in the Decision Engine alike.
C16_InvertedRangeFaults ==
    (trust_call.op = "_clamp" /\ trust_call.minimum > trust_call.maximum) =>
        trust_out.kind = "VerificationException"

-----------------------------------------------------------------------------
(* The diversity factor, on the results of verify and on every count up    *)
(* to MaxArticles past the engine's threshold.                              *)

DiversityCounts == 0..(engine.diversity_threshold + MaxArticles)

\* unique_sources / diversity_threshold, capped at 1.
CappedRatio(count) ==
    IF count >= engine.diversity_threshold THEN <<1, 1>>
    ELSE Rat(count, engine.diversity_threshold)

\* C19: the diversity factor is min(unique_sources / diversity_threshold, 1):
\* it never decreases when the count of unique sources grows, it is strictly
\* below 1 for every count below the threshold and exactly 1 for every count
\* at or above it; a successful verify reports that factor for its own
\* unique_sources.
C19_DiversityFactor ==
    /\ Succeeded =>
          /\ result.diversity_factor = CappedRatio(result.unique_sources)
          /\ (result.unique_sources < engine.diversity_threshold
                => RatLt(result.diversity_factor, <<1, 1>>))
          /\ (result.unique_sources >= engine.diversity_threshold
                => result.diversity_factor = <<1, 1>>)
    /\ \A count \in DiversityCounts :
          LET factor == _calculate_diversity_factor(engine, count)
          IN  /\ factor = CappedRatio(count)
              /\ (count < engine.diversity_threshold => RatLt(factor, <<1, 1>>))
              /\ (count >= engine.diversity_threshold => factor = <<1, 1>>)
              /\ \A more \in DiversityCounts :
                    count <= more =>
                        RatLe(factor, _calculate_diversity_factor(engine, more))

\* A verify that succeeded on more unique sources than the threshold asks.
C19_Witness ==
    /\ Succeeded
    /\ result.unique_sources > engine.diversity_threshold
    /\ result.diversity_factor = <<1, 1>>

-----------------------------------------------------------------------------
(* The recency factor without the same-hour boost.                         *)

DatedSurvivors == {i \in Survivors : ~IsNone(articles[i].published_at)}

\* The age of candidate i when verify read the clock.
AgeAtCall(i) == called_at[1] - Get(articles[i].published_at)

\* The dated survivors published in the clock hour of candidate i.
SameHour(i) ==
    {j \in DatedSurvivors :
        Get(articles[j].published_at) \div HourTicks
            = Get(articles[i].published_at) \div HourTicks}

NoBusyHour == \A i \in DatedSurvivors : Cardinality(SameHour(i)) < 3

\* How many dated survivors are in an age bracket.
InBracket(bracket) ==
    Cardinality({i \in DatedSurvivors : AgeBracket(AgeAtCall(i)) = bracket})

\* C20: when no clock hour holds three or more dated candidates, the recency
\* factor is the mean, over the surviving candidates that have a publication
\* time, of 1.0 (age up to 7 days), 0.8 (up to 30 days), 0.5 (up to 90 days)
\* and 0.2 (older), the ages of 7, 30 and 90 days exactly taking the higher
\* weight; undated candidates do not count, and the factor is exactly 1.0
\* when no survivor is dated.
C20_RecencyIsMeanOfAgeWeights ==
    (Succeeded /\ NoBusyHour) =>
        result.recency_factor =
            IF DatedSurvivors = {} THEN <<1, 1>>
            ELSE Rat(10 * InBracket(1) + 8 * InBracket(2)
                        + 5 * InBracket(3) + 2 * InBracket(4),
                     10 * Cardinality(DatedSurvivors))

\* A verify that succeeded on an undated survivor, one exactly 30 days old,
\* one past 90 days, and reported the mean (0.8 + 0.2) / 2.
C20_Witness ==
    /\ Succeeded
    /\ NoBusyHour
    /\ \E i \in Survivors : IsNone(articles[i].published_at)
    /\ \E i \in DatedSurvivors : AgeAtCall(i) = 30 * DayTicks
    /\ \E i \in DatedSurvivors : AgeAtCall(i) > 90 * DayTicks
    /\ result.recency_factor = <<1, 2>>

-----------------------------------------------------------------------------
(* Concurrent calls of verify on one engine.                               *)

ThreadDone(t) == threads[t].pc \in {"returned", "raised"}

\* What the call of frame t returns when it runs alone on its argument, at
\* the time it read the clock (a call that raised never read it).
Alone(t) ==
    verify(engine, threads[t].articles,
           IF IsNone(threads[t].clock) THEN now ELSE Get(threads[t].clock))

EachCallAsAlone == \A t \in 1..Len(threads) : ThreadDone(t) => threads[t].out = Alone(t)

\* A step leaves the engine as it was built, and changes the frame of one
\* call at most: no call sees anything another one wrote.
NoSharedWrite ==
    /\ engine' = engine
    /\ \A t, u \in 1..Len(threads) :
          (t # u /\ threads'[t] # threads[t]) => threads'[u] = threads[u]
    /\ \A t \in 1..Len(threads) :
          threads'[t].articles = threads[t].articles

\* C18: calls of verify running concurrently on one shared engine each end
\* with the result or fault they end with when run alone on the same list;
\* verify reads the engine's configuration and writes nothing another call
\* can observe.
C18_ConcurrentCallsAsAlone == []EachCallAsAlone /\ [][NoSharedWrite]_vars

\* Two calls overlap: the second, on another list, entered verify after the
\* first and returned its result while the first was still between reading
\* the clock and computing its score.
C18_Witness ==
    /\ Len(threads) >= 2
    /\ threads[1].articles # threads[2].articles
    /\ threads[1].pc = "score"
    /\ threads[2].pc = "returned"
    /\ threads[2].out.kind = "VerificationResult"
    /\ threads[2].out = Alone(2)

-----------------------------------------------------------------------------
(* The recency factor with the same-hour boost.                            *)

\* The size of the fullest clock hour among the dated survivors.
LargestHour ==
    IF DatedSurvivors = {} THEN 0
    ELSE CHOOSE c \in {Cardinality(SameHour(i)) : i \in DatedSurvivors} :
           \A i \in DatedSurvivors : Cardinality(SameHour(i)) <= c

\* The mean of the age weights over the dated survivors.
MeanAgeWeight ==
    IF DatedSurvivors = {} THEN <<1, 1>>
    ELSE Rat(10 * InBracket(1) + 8 * InBracket(2)
                + 5 * InBracket(3) + 2 * InBracket(4),
             10 * Cardinality(DatedSurvivors))

\* min(1.0 + (largest hour / survivors) x 0.2, 1.2)
Boost ==
    LET raised == Rat(5 * Cardinality(Survivors) + LargestHour,
                      5 * Cardinality(Survivors))
    IN  IF RatLt(<<6, 5>>, raised) THEN <<6, 5>> ELSE raised

\* C21: the recency factor is within [0, 1.2]; it exceeds 1.0 only when at
\* least three dated survivors share a clock hour, and then it is the mean
\* age weight times min(1.0 + (largest hour / survivors) x 0.2, 1.2), capped
\* at 1.2; three survivors of one hour of the last 7 days give 1.2; without
\* such an hour the factor is at most 1.0.
C21_RecencyBoost ==
    Succeeded =>
        /\ RatLe(<<0, 1>>, result.recency_factor)
        /\ RatLe(result.recency_factor, <<6, 5>>)
        /\ (RatLt(<<1, 1>>, result.recency_factor) => LargestHour >= 3)
        /\ (LargestHour >= 3 =>
              LET boosted == RatMul(MeanAgeWeight, Boost)
              IN  result.recency_factor =
                      IF RatLt(<<6, 5>>, boosted) THEN <<6, 5>> ELSE boosted)
        /\ (LargestHour < 3 => RatLe(result.recency_factor, <<1, 1>>))
        /\ ((/\ Cardinality(Survivors) = 3
             /\ LargestHour = 3
             /\ \A i \in DatedSurvivors : AgeAtCall(i) <= 7 * DayTicks)
                => result.recency_factor = <<6, 5>>)

\* Four survivors, three of them in one clock hour and one eight days old:
\* the factor is 0.95 x 1.15.
C21_Witness ==
    /\ Succeeded
    /\ Cardinality(Survivors) = 4
    /\ LargestHour = 3
    /\ result.recency_factor = <<437, 400>>

-----------------------------------------------------------------------------
(* The geography factor.                                                   *)

\* Two codes are the same country when they differ in case only.
SameCountry(a, b) ==
    \/ a = b
    \/ {a, b} = {"tr", "TR"}

\* The survivors that carry a non-empty country code.
Placed ==
    {i \in Survivors : articles[i].country_code \notin {None, Some("")}}

\* One survivor for each country: the first that names it.
FirstOfCountry ==
    {i \in Placed :
        \A j \in Placed :
            SameCountry(Get(articles[j].country_code), Get(articles[i].country_code))
                => i <= j}

DistinctCountries == Cardinality(FirstOfCountry)

\* C22: the geography factor is 1.0 when no survivor has a country code, and
\* otherwise min(k / 5, 1.0) with k the number of distinct country codes of
\* the survivors, compared without regard to case; it is 1.0 for k >= 5.
C22_GeographyFactor ==
    Succeeded =>
        /\ (Placed = {} => result.geography_factor = <<1, 1>>)
        /\ (DistinctCountries \in 1..4 =>
              result.geography_factor = Rat(DistinctCountries, 5))
        /\ (DistinctCountries >= 5 => result.geography_factor = <<1, 1>>)

\* Survivors from "tr" and "TR" and three more countries: four countries,
\* factor 0.8.
C22_Witness ==
    /\ Succeeded
    /\ \E i, j \in Placed :
          /\ articles[i].country_code = Some("tr")
          /\ articles[j].country_code = Some("TR")
    /\ Cardinality(Placed) = 5
    /\ DistinctCountries = 4
    /\ result.geography_factor = <<4, 5>>

-----------------------------------------------------------------------------
(* Partial geographic data against none.                                   *)

\* W x D x R of the current list: its unrounded score when no survivor has a
\* country code.
CountrylessRaw ==
    RatMul(RatMul(Rat(SurvivorProducts(Len(articles)),
                      10000 * Cardinality(Survivors)),
                  result.diversity_factor),
           result.recency_factor)

\* round(x, 4) clamped to [0,1], in ten-thousandths.
Rounded(x) ==
    LET scaled == RatMul(x, Rat(10000, 1))
        rounded == RoundHalfEven(Num(scaled), Den(scaled))
    IN  IF rounded < 0 THEN 0 ELSE IF rounded > 10000 THEN 10000 ELSE rounded

StatusRank(status) ==
    CASE status = "VERIFIED" -> 4
      [] status = "LIKELY_TRUE" -> 3
      [] status = "UNCERTAIN" -> 2
      [] status = "DISPUTED" -> 1
      [] OTHER -> 0

\* The second call ran on the list of the first with a country code given to
\* one survivor, and the first list had none on its survivors.
OneCountryGiven ==
    /\ TwoCalls
    /\ Succeeded
    /\ prev.geography_factor = <<1, 1>>
    /\ Cardinality(Placed) = 1

\* C28: with 1 to 4 distinct country codes among the survivors the geography
\* factor is strictly below the 1.0 of a list without any; a country code
\* given to one survivor of a list without country codes multiplies the
\* unrounded score by 0.2 and leaves the other factors alone, so the score
\* and the status never rise and can fall.
C28_PartialGeographyLowers ==
    /\ (Succeeded /\ DistinctCountries \in 1..4) =>
          RatLt(result.geography_factor, <<1, 1>>)
    /\ (Succeeded /\ Placed = {}) => result.geography_factor = <<1, 1>>
    /\ OneCountryGiven =>
          /\ result.geography_factor = <<1, 5>>
          /\ result.diversity_factor = prev.diversity_factor
          /\ result.recency_factor = prev.recency_factor
          /\ prev.score = Rounded(CountrylessRaw)
          /\ result.score = Rounded(RatMul(CountrylessRaw, <<1, 5>>))
          /\ result.score <= prev.score
          /\ StatusRank(result.status) <= StatusRank(prev.status)

\* Six survivors without a country score 0.6, UNCERTAIN; with a country code
\* on one of them the same list scores 0.12, UNVERIFIED.
C28_Witness ==
    /\ OneCountryGiven
    /\ prev.score = 6000
    /\ prev.status = "UNCERTAIN"
    /\ result.score = 1200
    /\ result.status = "UNVERIFIED"

-----------------------------------------------------------------------------
(* The normalizer: the candidate built from each record.                   *)

\* The candidates built so far, each at the position of its record.
Built == 1..Len(wf_articles)

\* The number a field holds, if it holds one.
Parsed(field) ==
    IF field = None THEN None
    ELSE IF field[1].parses THEN Some(field[1].value)
    ELSE None

\* The first of credibility, trust_score, guvenilirlik that holds a number.
ExplicitCredibility(doc) ==
    IF Parsed(doc.credibility) # None THEN Parsed(doc.credibility)
    ELSE IF Parsed(doc.trust_score) # None THEN Parsed(doc.trust_score)
    ELSE Parsed(doc.guvenilirlik)

SimilarityAsStated(i) ==
    /\ wf_articles[i].similarity \in 0..100
    /\ wf_articles[i].similarity =
          IF Parsed(documents[i].score) = None THEN 0
          ELSE Clamp01(Parsed(documents[i].score)[1])

\* The manual score the trust engine gives source sid, in hundredths: its
\* override or else the baseline of the type the workflow knows it by, plus
\* the adjustment of its bias, clamped.
ManualScoreOf(sid) ==
    LET type == IF sid \in DOMAIN workflow.source_type_overrides
                THEN workflow.source_type_overrides[sid] ELSE "unknown"
        bias == IF sid \in DOMAIN workflow.source_bias_overrides
                THEN workflow.source_bias_overrides[sid] ELSE "unknown"
        base == IF sid \in DOMAIN trust.overrides THEN trust.overrides[sid]
                ELSE TypeBaseline(type)
        adjustment == IF bias \in DOMAIN trust.bias_adjustments
                      THEN trust.bias_adjustments[bias] ELSE <<0, 1>>
        score == ClampUnit(RatAdd(base, adjustment))
    IN  (100 * score[1]) \div score[2]

\* C23 as stated: similarity and credibility are in [0,1], and a numeric
\* field that is missing or does not parse counts as 0, for the score field
\* and for the explicit credibility fields alike.
C23_AsStated ==
    \A i \in Built :
        /\ SimilarityAsStated(i)
        /\ wf_articles[i].credibility \in 0..100
        /\ wf_articles[i].credibility =
              IF ExplicitCredibility(documents[i]) = None THEN 0
              ELSE Clamp01(ExplicitCredibility(documents[i])[1])

\* C23 as amended: similarity and credibility are in [0,1]; a score that is
\* missing or does not parse gives similarity 0; an explicit credibility
\* field that is missing or does not parse is passed over for the next one,
\* and with none that parses the credibility is the trust engine's manual
\* score of the record's source, not 0.
C23_NumbersOfTheCandidate ==
    \A i \in Built :
        /\ SimilarityAsStated(i)
        /\ wf_articles[i].credibility \in 0..100
        /\ wf_articles[i].credibility =
              IF ExplicitCredibility(documents[i]) = None
              THEN ManualScoreOf(wf_articles[i].source_id)
              ELSE Clamp01(ExplicitCredibility(documents[i])[1])

\* Built: a record whose score and credibility do not parse and whose
\* trust_score is 1.5 (similarity 0, credibility 1), a record with -5 in
\* both (0 and 0), and a record with neither (similarity 0, credibility of
\* an unknown source, 0.40).
C23_Witness ==
    /\ Len(wf_articles) = 3
    /\ documents[1].score = Some(NotANumber)
    /\ documents[1].credibility = Some(NotANumber)
    /\ wf_articles[1].similarity = 0
    /\ wf_articles[1].credibility = 100
    /\ documents[2].score = Some(Number(-500))
    /\ wf_articles[2].similarity = 0
    /\ wf_articles[2].credibility = 0
    /\ documents[3].score = None
    /\ ExplicitCredibility(documents[3]) = None
    /\ wf_articles[3].similarity = 0
    /\ wf_articles[3].credibility = 40

-----------------------------------------------------------------------------
(* The source id of a candidate.                                           *)

\* The fields a source id is taken from, in the order they are tried.
IdentityFields(doc) ==
    <<doc.kaynak_id, doc.kaynak, doc.source_id, doc._id, doc.url, doc.baslik, doc.ozet>>

NonEmpty(field) == field # None /\ field # Some("")

\* Record i has no field to take a source id from.
Anonymous(i) == \A k \in 1..7 : ~NonEmpty(IdentityFields(documents[i])[k])

\* C24: every record gives one candidate, at its own position; the source id
\* is the first non-empty of kaynak_id, kaynak, source_id, _id, url, baslik,
\* ozet; a record with none of them gets a placeholder that no other record
\* of the call has as its source id, so it counts as a source of its own.
C24_SourceIdentity ==
    /\ Len(wf_articles) <= Len(documents)
    /\ pc \in {"merge", "returned", "raised"} => Len(wf_articles) = Len(documents)
    /\ \A i \in Built :
          /\ \A k \in 1..7 :
                (/\ NonEmpty(IdentityFields(documents[i])[k])
                 /\ \A h \in 1..(k - 1) : ~NonEmpty(IdentityFields(documents[i])[h]))
                    => wf_articles[i].source_id = IdentityFields(documents[i])[k][1]
          /\ Anonymous(i) =>
                \A j \in Built \ {i} :
                    wf_articles[j].source_id # wf_articles[i].source_id
    /\ pc \in {"merge", "returned"} =>
          verification.unique_sources = Cardinality(WfSurvivorSources)

\* A call returned on three records, two of them without any identifying
\* field, and three sources were counted.
C24_Witness ==
    /\ pc = "returned"
    /\ Len(documents) = 3
    /\ Anonymous(1)
    /\ Anonymous(3)
    /\ ~Anonymous(2)
    /\ wf_out.verification.unique_sources = 3

-----------------------------------------------------------------------------
(* The output articles of verify_text.                                     *)

\* The position, among the records, of the k-th surviving candidate.
SurvivorAt(k) ==
    CHOOSE i \in WfSurvivors : Cardinality({j \in WfSurvivors : j <= i}) = k

\* C25: a returned result has one output article for each surviving
\* candidate, in order, with the candidate's source id as kaynak_id and with
\* the headline and summary of the record the candidate was built from, also
\* when several records resolve to one source id and url.
C25_OutputKeepsItsRecord ==
    pc = "returned" =>
        /\ Len(wf_out.articles) = Cardinality(WfSurvivors)
        /\ \A k \in 1..Len(wf_out.articles) :
              /\ wf_out.articles[k].kaynak_id = wf_articles[SurvivorAt(k)].source_id
              /\ wf_out.articles[k].baslik = documents[SurvivorAt(k)].baslik
              /\ wf_out.articles[k].ozet = documents[SurvivorAt(k)].ozet

-----------------------------------------------------------------------------
(* The fallback search under the default similarity threshold.             *)

DefaultThreshold == engine.similarity_threshold = 65

\* C26: with the default similarity threshold no call of verify_text returns
\* a result with fallback_used true: the records of the fallback search
\* carry score None and become candidates of similarity 0, so a call whose
\* primary search raised ends with the no-similar-articles fault or with the
\* fallback's own error.
C26_NoVerdictFromFallback ==
    DefaultThreshold =>
        /\ (pc = "returned" => ~wf_out.fallback_used)
        /\ (fallback_used =>
              /\ \A i \in 1..Len(documents) : documents[i].score = None
              /\ \A i \in Built : wf_articles[i].similarity = 0)
        /\ ((PrimaryRaised /\ WfDone) =>
              /\ pc = "raised"
              /\ wf_out.kind \in {"NoSimilarArticlesException", "PyMongoError"})

\* The primary search raised, the fallback returned three records, and the
\* call ended with the no-similar-articles fault.
C26_Witness ==
    /\ DefaultThreshold
    /\ PrimaryRaised
    /\ fallback_used
    /\ Len(documents) = 3
    /\ pc = "raised"
    /\ wf_out.kind = "NoSimilarArticlesException"

-----------------------------------------------------------------------------
(* The limit handed to the searches.                                       *)

\* C30: the limit passed to the primary and to the fallback search is an
\* integer from 1 to 50, for every limit argument and every default_limit
\* given at construction: min(default_limit, 50) for an absent limit, 1 for
\* a limit of 0 or less, and the limit capped at 50 otherwise.
C30_SearchLimitInRange ==
    \A i \in 1..Len(search_log) :
        /\ search_log[i].limit \in 1..50
        /\ search_log[i].limit =
              IF call.limit = None THEN workflow.default_limit
              ELSE IF call.limit[1] <= 0 THEN 1
              ELSE IF call.limit[1] > 50 THEN 50
              ELSE call.limit[1]

-----------------------------------------------------------------------------
\* The largest score unique_sources sources can reach on the default engine:
\* 1.2 x min(unique_sources / 10, 1), in ten-thousandths.
ScoreCeiling(unique_sources) ==
    (12 * ScoreOne * (IF unique_sources < DIVERSITY_THRESHOLD THEN unique_sources
                      ELSE DIVERSITY_THRESHOLD)) \div (10 * DIVERSITY_THRESHOLD)

\* C27: on the default engine every successful result with confidence HIGH
\* has status VERIFIED or LIKELY_TRUE; the score never exceeds
\* 1.2 x min(unique_sources / 10, 1), so HIGH needs at least 7 unique sources.
C27_HighConfidenceStatus ==
    (Succeeded /\ engine = DefaultEngine) =>
        /\ result.score <= ScoreCeiling(result.unique_sources)
        /\ result.confidence = "HIGH" =>
              /\ result.status \in {"VERIFIED", "LIKELY_TRUE"}
              /\ result.unique_sources >= 7

\* HIGH confidence from exactly seven sources, through the recency boost.
C27_Witness ==
    /\ Succeeded
    /\ engine = DefaultEngine
    /\ result.confidence = "HIGH"
    /\ result.unique_sources = 7
    /\ result.status = "LIKELY_TRUE"
    /\ result.score = 8400

-----------------------------------------------------------------------------
(* Registrations that interleave with a call.                              *)

\* The candidates at i and j are of one source and their records name no
\* credibility that parses.
SameSourceNoCredibility(i, j) ==
    /\ wf_articles[i].source_id = wf_articles[j].source_id
    /\ ExplicitCredibility(documents[i]) = None
    /\ ExplicitCredibility(documents[j]) = None

\* C29 as stated: whatever registrations interleave with the call, its
\* candidates of one source without an explicit credibility field have the
\* same credibility.
C29_AsStated ==
    \A i, j \in Built :
        SameSourceNoCredibility(i, j) =>
            wf_articles[i].credibility = wf_articles[j].credibility

\* A turn of the loop gives the candidate it builds the credibility its
\* record names, or else the manual score its source has in the engine at
\* that turn.
ScoredAsHeld ==
    Len(wf_articles') = Len(wf_articles) + 1 =>
        LET i == Len(wf_articles')
        IN  wf_articles'[i].credibility =
               IF ExplicitCredibility(documents[i]) = None
               THEN ManualScoreOf(wf_articles'[i].source_id)
               ELSE Clamp01(ExplicitCredibility(documents[i])[1])

\* Candidates of one source without explicit credibility agree as long as
\* no override was registered for that source since the call began.
SameWhenUndisturbed ==
    \A i, j \in Built :
        (/\ SameSourceNoCredibility(i, j)
         /\ wf_articles[i].source_id \notin DOMAIN trust_log.registered) =>
            wf_articles[i].credibility = wf_articles[j].credibility

\* C29 as amended: each candidate without an explicit credibility field
\* receives the manual score its source has in the trust engine at the
\* moment that candidate is normalized; candidates of one source agree when
\* no registration for that source takes effect during the call, and a
\* registration that falls between two of them gives the later one the
\* newly registered score.
C29_ScoredAtNormalization == []SameWhenUndisturbed /\ [][ScoredAsHeld]_vars

\* An override of 0.95 for "ntv" was registered between the normalization
\* of two "ntv" records: the first candidate has the baseline of an unknown
\* source, the second the override.
C29_Witness ==
    /\ Len(wf_articles) >= 2
    /\ SameSourceNoCredibility(1, 2)
    /\ wf_articles[1].source_id = "ntv"
    /\ wf_articles[1].credibility = 40
    /\ wf_articles[2].credibility = 95
    /\ trust_call.op = "register_manual_override"

=============================================================================
